---- MODULE Spec2Model ----
(***************************************************************************)
(* Model of the Transient Recorder framework core (TRBaseDriver,           *)
(* TRConfigParam, TRChannelDataSubmit): the arming sequence run by the     *)
(* read thread, the write handlers of the asyn port, the disarm protocol   *)
(* and the submission of channel data.                                     *)
(*                                                                         *)
(* The read thread is a process whose position is pc; every other thread   *)
(* (asyn writes, driver calls, data submitters) runs handlers that hold    *)
(* the port lock for their whole body and are therefore single steps       *)
(* guarded by portLock = "free".                                           *)
(***************************************************************************)
EXTENDS Integers, Sequences, FiniteSets, TLC

\* ------------------------------------------------------------------------
\* Bounds of the model
\* ------------------------------------------------------------------------

\* Largest NUM_BURSTS value an external write may set.
MaxBursts == 2

\* Largest number of buffered bursts checkOverflow may report.
MaxBufferBursts == 2

\* Largest number of writes to desired values in one behaviour.
MaxWrites == 1

\* The counters of driver calls saturate at this value: "two or more".
Many == 2

\* Largest number of start() calls that queue a task in one behaviour.
MaxStarts == 3

\* ------------------------------------------------------------------------
\* Program constants
\* ------------------------------------------------------------------------

ArmStateDisarm == 0
ArmStatePostTrigger == 1
ArmStatePrePostTrigger == 2
ArmStateBusy == 3
ArmStateError == 4

ArmState == {ArmStateDisarm, ArmStatePostTrigger, ArmStatePrePostTrigger,
             ArmStateBusy, ArmStateError}

\* The not-a-number value of the floating point parameters, encoded as a
\* number that no parameter value equals.
NAN == -999

\* The configuration parameters registered by the TRBaseDriver constructor,
\* in registration order.
ConfigParams == <<"NUM_BURSTS", "NUM_POST_SAMPLES", "NUM_PRE_POST_SAMPLES",
                  "REQUESTED_SAMPLE_RATE", "ACHIEVABLE_SAMPLE_RATE">>

ParamNames == {ConfigParams[i] : i \in 1..Len(ConfigParams)}

\* m_internal of each configuration parameter (initInternalParam).
m_internal == [p \in ParamNames |-> p = "ACHIEVABLE_SAMPLE_RATE"]

\* m_invalid_value of each configuration parameter.
m_invalid_value == [p \in ParamNames |-> NAN]

\* Values of the desired parameters the environment may write.
DesiredValues(p) ==
    CASE p = "NUM_BURSTS"           -> (-1)..MaxBursts
      [] p = "NUM_POST_SAMPLES"     -> 0..1
      [] p = "NUM_PRE_POST_SAMPLES" -> 1..2
      [] OTHER                      -> {1, 2}

\* Values of ARM_REQUEST a client may write: the three requests and one
\* value that is not a request.
ArmRequestValues == {ArmStateDisarm, ArmStatePostTrigger,
                     ArmStatePrePostTrigger, ArmStateBusy}

\* The null pointer, and the address of the TRWorkerThread object.
NULL == 0
Worker == 1

\* Values of TRArmInfo::rate_for_display a driver may leave in checkSettings.
RateForDisplayValues == {NAN, 1}

\* ------------------------------------------------------------------------
\* State
\* ------------------------------------------------------------------------

VARIABLES
    pc,                      \* position of the read thread
    portLock,                \* holder of the asyn port lock: "free" or "acq"
    m_supports_pre_samples,  \* TRBaseConfig::supports_pre_samples
    armRequestParam,         \* asyn parameter ARM_REQUEST
    armStateParam,           \* asyn parameter ARM_STATE
    effectiveSampleRate,     \* asyn parameter EFFECTIVE_SAMPLE_RATE
    desired,                 \* asyn parameters DESIRED_<name>
    effective,               \* asyn parameters EFFECTIVE_<name>
    m_snapshot_value,        \* TRConfigParam::m_snapshot_value per parameter
    m_irrelevant,            \* TRConfigParam::m_irrelevant per parameter
    m_arm_state,
    m_requested_arm_state,
    m_disarm_requested,
    m_requested_rearm_state,
    m_in_read_loop,
    m_allowing_data,
    m_rate_for_display,
    m_start_arming_event,    \* epicsEvent: TRUE when signalled
    m_disarm_requested_event,
    need_stop_acquisition,   \* locals of readThreadIteration
    had_error,
    overflow,
    remainingBursts,
    currentRemBursts,
    subPc,                   \* position of a thread inside submit
    proceed,                 \* local of TRChannelDataSubmit::submit
    baseParams,              \* asyn parameters BURST_ID, BURST_TIME_BURST,
                             \* BURST_TIME_READ, BURST_TIME_PROCESS and
                             \* SLEEP_AFTER_BURST
    lastWriteStatus,         \* status returned by the last write that
                             \* came to the write gate ("none" before)
    timeArray,               \* TRTimeArrayDriver: m_unit, m_num_pre,
                             \* m_num_post and its asyn parameter UPDATE
    hist,                    \* record of what has been observed (see Init)
    m_stop,                  \* TRWorkerThread::m_stop
    m_queue,                 \* TRWorkerThread::m_queue, front first
    m_event,                 \* TRWorkerThread::m_event: TRUE when signalled
    m_mutex,                 \* holder of TRWorkerThread::m_mutex: "free" or
                             \* "worker"
    workerPc,                \* position of the worker thread in run
    task,                    \* local task of TRWorkerThread::run
    m_worker,                \* TRWorkerThreadTask::m_worker of each task
    m_id,                    \* TRWorkerThreadTask::m_id of each task
    destroyed,               \* the tasks whose destructor has run
    startPc,                 \* position of the thread calling start, per task
    stopPc,                  \* position of the thread calling stop
    lastReturn,              \* what the last start or cancel returned
    whist                    \* record of the worker's queue (see Init)

threadVars == <<pc, need_stop_acquisition, had_error, overflow,
                remainingBursts, currentRemBursts>>
flagVars == <<m_arm_state, armStateParam, m_requested_arm_state,
              m_disarm_requested, m_requested_rearm_state, m_in_read_loop,
              m_allowing_data, m_start_arming_event, m_disarm_requested_event>>
paramVars == <<desired, effective, effectiveSampleRate, m_snapshot_value,
               m_irrelevant, m_rate_for_display>>
submitVars == <<subPc, proceed>>
writeVars == <<baseParams, lastWriteStatus>>
workerVars == <<m_stop, m_queue, m_event, m_mutex, workerPc, task, m_worker,
                m_id, destroyed, startPc, stopPc, lastReturn, whist>>

vars == <<pc, portLock, m_supports_pre_samples, armRequestParam,
          armStateParam, effectiveSampleRate, desired, effective,
          m_snapshot_value, m_irrelevant, m_arm_state,
          m_requested_arm_state, m_disarm_requested,
          m_requested_rearm_state, m_in_read_loop, m_allowing_data,
          m_rate_for_display, m_start_arming_event,
          m_disarm_requested_event, need_stop_acquisition, had_error,
          overflow, remainingBursts, currentRemBursts, subPc, proceed,
          baseParams, lastWriteStatus, timeArray,
          hist, m_stop, m_queue, m_event, m_mutex, workerPc, task, m_worker,
          m_id, destroyed, startPc, stopPc, lastReturn, whist>>

\* The variables of the port driver, which the worker thread and its tasks
\* leave alone.
controllerVars == <<pc, portLock, m_supports_pre_samples, armRequestParam,
                    threadVars, flagVars, paramVars, submitVars, writeVars,
                    timeArray, hist>>

\* ------------------------------------------------------------------------
\* Record of observed calls (history, not program state)
\* ------------------------------------------------------------------------

Sat(n) == IF n < Many THEN n + 1 ELSE n

\* The record of an arming, as it is when the arming starts:
\*   nStart, nStop, nInterrupt  calls of startAcquisition, stopAcquisition
\*                              and interruptReading in the arming (saturating)
\*   nProcess                   calls of processBurstData in the arming
\*                              (saturating at MaxBursts + 1)
\*   failed                     a driver function returned false or left
\*                              rate_for_display unset in the arming
\*   armStateTrace              the published ARM_STATE values of an arming
\*                              requested from Disarm that has seen no disarm
\*                              request; <<>> otherwise
\*   unlockNotHeld              the read thread has called unlock() in the
\*                              arming while it did not hold the port lock
NewArming(h, trace) ==
    [h EXCEPT !.nStart = 0, !.nStop = 0, !.nInterrupt = 0, !.nProcess = 0,
              !.failed = FALSE, !.armStateTrace = trace,
              !.unlockNotHeld = FALSE]

\* The ARM_STATE parameter has the value s after a call of setArmState.
Published(h, s) ==
    [h EXCEPT !.armStateTrace = IF @ = <<>> THEN @ ELSE Append(@, s)]

HistInit ==
    [nStart |-> 0, nStop |-> 0, nInterrupt |-> 0, nProcess |-> 0,
     failed |-> FALSE, armStateTrace |-> <<>>, unlockNotHeld |-> FALSE,
     \* the desired values when waitForPreconditions last returned true
     desiredAtWfp |-> [p \in ParamNames |-> 0],
     \* external writes to desired values so far
     writes |-> 0,
     \* the last finished TRChannelDataSubmit::submit: whether the array was
     \* handed to submitArray, m_allowing_data when submit read it, and
     \* m_allowing_data when the array was handed over or released
     submitted |-> FALSE, handedOver |-> FALSE, allowedAtCheck |-> FALSE,
     allowedAtHandOver |-> FALSE,
     \* the arm_info the last successful checkSettings returned (as the
     \* constructor of TRArmInfo leaves it, before)
     armInfo |-> [custom_time_array_calc_inputs |-> FALSE,
                  custom_time_array_num_pre_samples |-> 0,
                  custom_time_array_num_post_samples |-> 0],
     \* calls of onDisarmed so far (saturating)
     nOnDisarmed |-> 0]

\* ------------------------------------------------------------------------
\* TRConfigParam
\* ------------------------------------------------------------------------

\* Traits::getParam on the desired-value parameter.
getDesired(p) == desired[p]

\* A setSnapshotToDesired that passes over the internal parameters.
setSnapshotToDesiredNotInternal ==
    [snap |-> [p \in ParamNames |->
                 IF m_internal[p] THEN m_snapshot_value[p] ELSE getDesired(p)],
     irr  |-> [p \in ParamNames |-> FALSE]]

\* TRConfigParam::setSnapshotToDesired applied to every parameter by
\* processConfigParams: the pair <<snapshot values, irrelevant flags>>.
setSnapshotToDesired ==
    [snap |-> [p \in ParamNames |-> getDesired(p)],
     irr  |-> [p \in ParamNames |-> FALSE]]

\* A setEffectiveToSnapshot that passes over m_irrelevant.
setEffectiveToSnapshotAlways(snap, irr, p) == snap[p]

\* TRConfigParam::setEffectiveToSnapshot for one parameter.
setEffectiveToSnapshot(snap, irr, p) ==
    IF irr[p] THEN m_invalid_value[p] ELSE snap[p]

\* A setEffectiveToInvalid that leaves the effective value as it is.
setEffectiveToInvalidKeeping(p) == effective[p]

\* TRConfigParam::setEffectiveToInvalid for one parameter.
setEffectiveToInvalid(p) == m_invalid_value[p]

\* A checkBasicSettings that accepts NUM_PRE_POST_SAMPLES equal to
\* NUM_POST_SAMPLES in a PrePostTrigger arming.
checkBasicSettingsAllowingEqual(snap, irr) ==
    LET num_bursts == snap["NUM_BURSTS"]
        num_post_samples == snap["NUM_POST_SAMPLES"]
        num_pre_post_samples == snap["NUM_PRE_POST_SAMPLES"]
    IN  IF num_bursts < 0 \/ num_post_samples <= 0
        THEN [ok |-> FALSE, snap |-> snap, irr |-> irr]
        ELSE IF m_requested_arm_state = ArmStatePrePostTrigger
             THEN [ok |-> m_supports_pre_samples
                             /\ num_pre_post_samples >= num_post_samples,
                   snap |-> snap, irr |-> irr]
        ELSE [ok |-> TRUE,
              snap |-> [snap EXCEPT !["NUM_PRE_POST_SAMPLES"] = 0],
              irr  |-> [irr EXCEPT !["NUM_PRE_POST_SAMPLES"] = TRUE]]

\* TRBaseDriver::checkBasicSettings on the snapshot just taken: whether the
\* settings are accepted, and the snapshot and irrelevant flags it leaves.
checkBasicSettings(snap, irr) ==
    LET num_bursts == snap["NUM_BURSTS"]
        num_post_samples == snap["NUM_POST_SAMPLES"]
        num_pre_post_samples == snap["NUM_PRE_POST_SAMPLES"]
    IN  IF num_bursts < 0 THEN [ok |-> FALSE, snap |-> snap, irr |-> irr]
        ELSE IF num_post_samples <= 0
             THEN [ok |-> FALSE, snap |-> snap, irr |-> irr]
        ELSE IF m_requested_arm_state = ArmStatePrePostTrigger
             THEN IF ~m_supports_pre_samples
                  THEN [ok |-> FALSE, snap |-> snap, irr |-> irr]
                  ELSE IF num_pre_post_samples <= num_post_samples
                       THEN [ok |-> FALSE, snap |-> snap, irr |-> irr]
                       ELSE [ok |-> TRUE, snap |-> snap, irr |-> irr]
        ELSE [ok |-> TRUE,
              snap |-> [snap EXCEPT !["NUM_PRE_POST_SAMPLES"] = 0],
              irr  |-> [irr EXCEPT !["NUM_PRE_POST_SAMPLES"] = TRUE]]

\* A setEffectiveParams that does nothing once disarming is requested.
setEffectiveParamsUnlessDisarming(rate) ==
    IF m_disarm_requested
    THEN UNCHANGED <<effectiveSampleRate, effective>>
    ELSE /\ effectiveSampleRate' = rate
         /\ effective' = [p \in ParamNames |->
                             setEffectiveToSnapshot(m_snapshot_value, m_irrelevant, p)]

\* TRBaseDriver::setEffectiveParams with the given display rate.
setEffectiveParams(rate) ==
    /\ effectiveSampleRate' = rate
    /\ effective' = [p \in ParamNames |->
                        setEffectiveToSnapshot(m_snapshot_value, m_irrelevant, p)]

\* A clearEffectiveParams that resets the sample rate only.
clearEffectiveParamsRateOnly ==
    /\ effectiveSampleRate' = NAN
    /\ UNCHANGED effective

\* TRBaseDriver::clearEffectiveParams.
clearEffectiveParams ==
    /\ effectiveSampleRate' = NAN
    /\ effective' = [p \in ParamNames |-> setEffectiveToInvalid(p)]

\* ------------------------------------------------------------------------
\* Arm requests and disarming (called with the port locked)
\* ------------------------------------------------------------------------

\* A setArmState that leaves the ARM_STATE parameter as it is.
setArmStateUnpublished(armState) ==
    /\ m_arm_state' = armState
    /\ UNCHANGED armStateParam

\* TRBaseDriver::setArmState.
setArmState(armState) ==
    /\ m_arm_state' = armState
    /\ armStateParam' = armState

\* An interruptReading that is called whether or not the read thread is in
\* the read loop.
interruptReadingAlways(h) == [h EXCEPT !.nInterrupt = Sat(@)]

\* The call of interruptReading in requestDisarming, made if the read
\* thread is in the read loop.
interruptReadingIfInReadLoop(h) ==
    [h EXCEPT !.nInterrupt = IF m_in_read_loop THEN Sat(@) ELSE @]

\* TRBaseDriver::startArming; trace is the ARM_STATE trace the new arming
\* starts with.
startArming(requested_arm_state, trace) ==
    /\ setArmState(ArmStateBusy)
    /\ m_requested_arm_state' = requested_arm_state
    /\ m_disarm_requested' = FALSE
    /\ m_requested_rearm_state' = ArmStateDisarm
    /\ m_in_read_loop' = FALSE
    /\ m_start_arming_event' = TRUE
    /\ hist' = NewArming(hist, trace)

\* A requestDisarming that keeps the rearm target of the first request.
requestDisarmingFirstTarget(requested_rearm_state) ==
    /\ IF ~m_disarm_requested
       THEN /\ m_disarm_requested' = TRUE
            /\ m_allowing_data' = FALSE
            /\ setArmState(ArmStateBusy)
            /\ m_disarm_requested_event' = TRUE
            /\ hist' = [interruptReadingIfInReadLoop(hist) EXCEPT
                          !.armStateTrace = <<>>]
            /\ m_requested_rearm_state' = requested_rearm_state
       ELSE UNCHANGED <<m_disarm_requested, m_allowing_data, m_arm_state,
                        armStateParam, m_disarm_requested_event, hist,
                        m_requested_rearm_state>>
    /\ UNCHANGED <<m_requested_arm_state, m_in_read_loop, m_start_arming_event>>

\* A requestDisarming that does not signal m_disarm_requested_event.
requestDisarmingNoSignal(requested_rearm_state) ==
    /\ IF ~m_disarm_requested
       THEN /\ m_disarm_requested' = TRUE
            /\ m_allowing_data' = FALSE
            /\ setArmState(ArmStateBusy)
            /\ UNCHANGED m_disarm_requested_event
            /\ hist' = [interruptReadingIfInReadLoop(hist) EXCEPT
                          !.armStateTrace = <<>>]
       ELSE UNCHANGED <<m_disarm_requested, m_allowing_data, m_arm_state,
                        armStateParam, m_disarm_requested_event, hist>>
    /\ m_requested_rearm_state' = requested_rearm_state
    /\ UNCHANGED <<m_requested_arm_state, m_in_read_loop, m_start_arming_event>>

\* TRBaseDriver::requestDisarming.
requestDisarming(requested_rearm_state) ==
    /\ IF ~m_disarm_requested
       THEN /\ m_disarm_requested' = TRUE
            /\ m_allowing_data' = FALSE
            /\ setArmState(ArmStateBusy)
            /\ m_disarm_requested_event' = TRUE
            /\ hist' = [interruptReadingIfInReadLoop(hist) EXCEPT
                          !.armStateTrace = <<>>]
       ELSE UNCHANGED <<m_disarm_requested, m_allowing_data, m_arm_state,
                        armStateParam, m_disarm_requested_event, hist>>
    /\ m_requested_rearm_state' = requested_rearm_state
    /\ UNCHANGED <<m_requested_arm_state, m_in_read_loop, m_start_arming_event>>

\* A handleArmRequest that asks for disarming whenever Disarm is written.
handleArmRequestDisarmAlways(armRequest) ==
    IF armRequest \notin {ArmStateDisarm, ArmStatePostTrigger, ArmStatePrePostTrigger}
    THEN UNCHANGED <<flagVars, hist>>
    ELSE IF m_arm_state = ArmStateDisarm /\ armRequest # ArmStateDisarm
         THEN /\ startArming(armRequest, <<ArmStateDisarm, ArmStateBusy>>)
              /\ UNCHANGED <<m_allowing_data, m_disarm_requested_event>>
         ELSE requestDisarming(armRequest)

\* A handleArmRequest that passes over a write that arrives after disarming
\* has been requested.
handleArmRequestOnceRequested(armRequest) ==
    IF armRequest \notin {ArmStateDisarm, ArmStatePostTrigger, ArmStatePrePostTrigger}
    THEN UNCHANGED <<flagVars, hist>>
    ELSE IF m_arm_state = ArmStateDisarm
         THEN IF armRequest # ArmStateDisarm
              THEN /\ startArming(armRequest, <<ArmStateDisarm, ArmStateBusy>>)
                   /\ UNCHANGED <<m_allowing_data, m_disarm_requested_event>>
              ELSE UNCHANGED <<flagVars, hist>>
         ELSE IF m_disarm_requested
              THEN UNCHANGED <<flagVars, hist>>
              ELSE requestDisarming(armRequest)

\* TRBaseDriver::handleArmRequest, after writeInt32 stored the value.
handleArmRequest(armRequest) ==
    IF armRequest \notin {ArmStateDisarm, ArmStatePostTrigger, ArmStatePrePostTrigger}
    THEN UNCHANGED <<flagVars, hist>>
    ELSE IF m_arm_state = ArmStateDisarm
         THEN IF armRequest # ArmStateDisarm
              THEN /\ startArming(armRequest, <<ArmStateDisarm, ArmStateBusy>>)
                   /\ UNCHANGED <<m_allowing_data, m_disarm_requested_event>>
              ELSE UNCHANGED <<flagVars, hist>>
         ELSE requestDisarming(armRequest)

\* The status TRBaseDriver::handleArmRequest returns, which writeInt32
\* returns for a write of ARM_REQUEST.
handleArmRequestStatus(armRequest) ==
    IF armRequest \notin {ArmStateDisarm, ArmStatePostTrigger, ArmStatePrePostTrigger}
    THEN "asynError"
    ELSE "asynSuccess"

\* A writeInt32 on ARM_REQUEST that validates the value before it stores
\* it.
WriteArmRequestValidated(value) ==
    /\ portLock = "free"
    /\ armRequestParam' =
          IF value \in {ArmStateDisarm, ArmStatePostTrigger,
                        ArmStatePrePostTrigger}
          THEN value ELSE armRequestParam
    /\ handleArmRequest(value)
    /\ UNCHANGED <<portLock, m_supports_pre_samples, workerVars, timeArray,
                   writeVars, threadVars,
                   paramVars, submitVars>>

\* TRBaseDriver::writeInt32 on ARM_REQUEST.
WriteArmRequest(value) ==
    /\ portLock = "free"
    /\ armRequestParam' = value
    /\ handleArmRequest(value)
    /\ UNCHANGED <<portLock, m_supports_pre_samples, workerVars, timeArray,
                   writeVars, threadVars, paramVars,
                   submitVars>>

\* A requestDisarmingFromDriver that does not look at the arm state.
requestDisarmingFromDriverAlways ==
    /\ portLock = "free"
    /\ requestDisarming(ArmStateDisarm)
    /\ UNCHANGED <<portLock, m_supports_pre_samples, workerVars, timeArray,
                   writeVars,
                   armRequestParam, threadVars, paramVars, submitVars>>

\* A requestDisarmingFromDriver that asks for a rearming with the state the
\* arming under way was requested with.
requestDisarmingFromDriverRearming ==
    /\ portLock = "free"
    /\ IF m_arm_state # ArmStateDisarm
       THEN requestDisarming(m_requested_arm_state)
       ELSE UNCHANGED <<flagVars, hist>>
    /\ UNCHANGED <<portLock, m_supports_pre_samples, workerVars, timeArray,
                   writeVars, armRequestParam,
                   threadVars, paramVars, submitVars>>

\* TRBaseDriver::requestDisarmingFromDriver, called by the driver with the
\* port locked.
requestDisarmingFromDriver ==
    /\ portLock = "free"
    /\ IF m_arm_state # ArmStateDisarm
       THEN requestDisarming(ArmStateDisarm)
       ELSE UNCHANGED <<flagVars, hist>>
    /\ UNCHANGED <<portLock, m_supports_pre_samples, workerVars, timeArray,
                   writeVars, armRequestParam,
                   threadVars, paramVars, submitVars>>

\* A setDesired that stores the value in the snapshot as well.
setDesiredAndSnapshot(d, p, value) ==
    /\ desired' = [d EXCEPT ![p] = value]
    /\ m_snapshot_value' = [m_snapshot_value EXCEPT ![p] = value]
    /\ UNCHANGED m_irrelevant

\* TRConfigParam::setDesired of parameter p, where d holds the desired
\* values as they are when it is called.
setDesired(d, p, value) ==
    /\ desired' = [d EXCEPT ![p] = value]
    /\ UNCHANGED <<m_snapshot_value, m_irrelevant>>

\* TRBaseDriver::setAchievableSampleRate, called with the port locked.
setAchievableSampleRate(d, value) ==
    setDesired(d, "ACHIEVABLE_SAMPLE_RATE", value)

\* TRBaseDriver::requestedSampleRateChanged (default implementation).
requestedSampleRateChanged(d, value) == setAchievableSampleRate(d, value)

\* TRBaseDriver::writeInt32 / writeFloat64 on the desired-value parameter of
\* a configuration parameter that is not internal: the base class stores the
\* value, then a write of the requested sample rate is reported to the
\* driver.
WriteDesired(p, value) ==
    /\ portLock = "free"
    /\ ~m_internal[p]
    /\ hist.writes < MaxWrites
    /\ IF p = "REQUESTED_SAMPLE_RATE"
       THEN requestedSampleRateChanged([desired EXCEPT ![p] = value], value)
       ELSE /\ desired' = [desired EXCEPT ![p] = value]
            /\ UNCHANGED <<m_snapshot_value, m_irrelevant>>
    /\ hist' = [hist EXCEPT !.writes = @ + 1]
    /\ UNCHANGED <<portLock, m_supports_pre_samples, workerVars, timeArray,
                   writeVars, armRequestParam,
                   threadVars, flagVars, effective, effectiveSampleRate,
                   m_rate_for_display, submitVars>>

\* The driver reports a new achievable sample rate (asynchronous clock
\* calculation).
DriverSetAchievableSampleRate(value) ==
    /\ portLock = "free"
    /\ hist.writes < MaxWrites
    /\ setAchievableSampleRate(desired, value)
    /\ hist' = [hist EXCEPT !.writes = @ + 1]
    /\ UNCHANGED <<portLock, m_supports_pre_samples, workerVars, timeArray,
                   writeVars, armRequestParam,
                   threadVars, flagVars, effective, effectiveSampleRate,
                   m_rate_for_display, submitVars>>

\* ------------------------------------------------------------------------
\* Write-protected parameters and the write gate
\* ------------------------------------------------------------------------

\* The base asyn parameters the constructor creates besides ARM_REQUEST,
\* ARM_STATE and EFFECTIVE_SAMPLE_RATE.
BaseParamNames ==
    {"BURST_ID", "BURST_TIME_BURST", "BURST_TIME_READ", "BURST_TIME_PROCESS",
     "SLEEP_AFTER_BURST"}

\* The names TRConfigParam::init gives the two asyn parameters of the
\* configuration parameter p.
DesiredParam(p) == "DESIRED_" \o p
EffectiveParam(p) == "EFFECTIVE_" \o p

\* The asyn parameters of the port.
AsynParams ==
    {"ARM_REQUEST", "ARM_STATE", "EFFECTIVE_SAMPLE_RATE"}
       \cup BaseParamNames
       \cup {DesiredParam(p) : p \in ParamNames}
       \cup {EffectiveParam(p) : p \in ParamNames}

\* A list of protected parameters that holds only what the constructor
\* adds itself.
m_protected_paramsOfConstructor ==
    {"ARM_STATE", "EFFECTIVE_SAMPLE_RATE", "BURST_ID", "BURST_TIME_BURST",
     "BURST_TIME_READ", "BURST_TIME_PROCESS"}

\* m_protected_params after the constructor: its own addProtectedParam
\* calls and those of TRConfigParam::init for each configuration parameter.
m_protected_params ==
    {"ARM_STATE", "EFFECTIVE_SAMPLE_RATE", "BURST_ID", "BURST_TIME_BURST",
     "BURST_TIME_READ", "BURST_TIME_PROCESS"}
       \cup {EffectiveParam(p) : p \in ParamNames}
       \cup {DesiredParam(p) : p \in {q \in ParamNames : m_internal[q]}}

\* TRBaseDriver::checkProtectedParamWrite: TRUE if the write may go on.
checkProtectedParamWrite(param) == param \notin m_protected_params

\* The values clients write.
WriteValues == {1}

\* The burst meta-information drivers publish.
BurstMetaInfos ==
    [burst_id : {1}, time_burst : {1}, time_read : {1}, time_process : {1}]

\* asynPortDriver::writeInt32 / writeFloat64: the value is stored in the
\* parameter.
storeParam(param, value) ==
    /\ armStateParam' = IF param = "ARM_STATE" THEN value ELSE armStateParam
    /\ effectiveSampleRate' =
          IF param = "EFFECTIVE_SAMPLE_RATE" THEN value
          ELSE effectiveSampleRate
    /\ baseParams' =
          IF param \in BaseParamNames
          THEN [baseParams EXCEPT ![param] = value]
          ELSE baseParams
    /\ desired' = [p \in ParamNames |->
                     IF param = DesiredParam(p) THEN value ELSE desired[p]]
    /\ effective' = [p \in ParamNames |->
                       IF param = EffectiveParam(p) THEN value
                       ELSE effective[p]]

\* The parameters with a write action of their own: ARM_REQUEST
\* (WriteArmRequest) and the desired values that clients set (WriteDesired).
ClientParams ==
    {"ARM_REQUEST"} \cup {DesiredParam(p) : p \in ParamNames \ {"ACHIEVABLE_SAMPLE_RATE"}}

\* TRBaseDriver::writeInt32 / writeFloat64 on any other parameter: the
\* write gate, then the write of the base class.
WriteParam(param, value) ==
    /\ portLock = "free"
    /\ param \in AsynParams \ ClientParams
    /\ IF ~checkProtectedParamWrite(param)
       THEN /\ lastWriteStatus' = "asynError"
            /\ UNCHANGED <<armStateParam, effectiveSampleRate, baseParams,
                           desired, effective>>
       ELSE /\ storeParam(param, value)
            /\ lastWriteStatus' = "asynSuccess"
    /\ UNCHANGED <<portLock, m_supports_pre_samples, workerVars, timeArray,
                   armRequestParam,
                   threadVars, m_arm_state, m_requested_arm_state,
                   m_disarm_requested, m_requested_rearm_state,
                   m_in_read_loop, m_allowing_data, m_start_arming_event,
                   m_disarm_requested_event, m_snapshot_value, m_irrelevant,
                   m_rate_for_display, submitVars, hist>>

\* TRBaseDriver::publishBurstMetaInfo, called by the driver with the port
\* unlocked while a burst is read or processed.
publishBurstMetaInfo(info) ==
    /\ portLock = "free"
    /\ pc \in {"read_burst", "process"}
    /\ baseParams' = [baseParams EXCEPT
                        !["BURST_ID"] = info.burst_id,
                        !["BURST_TIME_BURST"] = info.time_burst,
                        !["BURST_TIME_READ"] = info.time_read,
                        !["BURST_TIME_PROCESS"] = info.time_process]
    /\ UNCHANGED <<portLock, m_supports_pre_samples, workerVars, timeArray,
                   armRequestParam,
                   threadVars, flagVars, paramVars, submitVars,
                   lastWriteStatus, hist>>

\* ------------------------------------------------------------------------
\* TRChannelDataSubmit::submit, called with an allocated array
\* ------------------------------------------------------------------------

\* A submit that does not look at m_allowing_data.
SubmitProceedAlways == TRUE

\* The value submit gives its local proceed while it holds the port lock.
SubmitProceed == m_allowing_data

\* submit up to the end of the locked block.
SubmitCheck ==
    /\ subPc = "idle"
    /\ portLock = "free"
    /\ proceed' = SubmitProceed
    /\ subPc' = "decided"
    /\ hist' = [hist EXCEPT !.allowedAtCheck = m_allowing_data,
                            !.submitted = FALSE, !.handedOver = FALSE,
                            !.allowedAtHandOver = FALSE]
    /\ UNCHANGED <<portLock, m_supports_pre_samples, workerVars, timeArray,
                   writeVars, armRequestParam,
                   threadVars, flagVars, paramVars>>

\* The rest of submit: submitArray on the channels port, or release.
SubmitFinish ==
    /\ subPc = "decided"
    /\ subPc' = "idle"
    /\ proceed' = TRUE
    /\ hist' = [hist EXCEPT !.submitted = TRUE, !.handedOver = proceed,
                            !.allowedAtHandOver = m_allowing_data]
    /\ UNCHANGED <<portLock, m_supports_pre_samples, workerVars, timeArray,
                   writeVars, armRequestParam,
                   threadVars, flagVars, paramVars>>

\* ------------------------------------------------------------------------
\* The read thread: TRBaseDriver::readThreadIteration
\* ------------------------------------------------------------------------

\* Locals with need_stop_acquisition declared true.
LocalsInitNeedStop ==
    /\ need_stop_acquisition' = TRUE
    /\ had_error' = TRUE
    /\ overflow' = FALSE
    /\ remainingBursts' = 0
    /\ currentRemBursts' = 0

\* The locals of readThreadIteration as declared.
LocalsInit ==
    /\ need_stop_acquisition' = FALSE
    /\ had_error' = TRUE
    /\ overflow' = FALSE
    /\ remainingBursts' = 0
    /\ currentRemBursts' = 0

\* A burst loop that leaves for the restart as soon as an overflow was
\* detected.
LoopNextRestartAtOnce(cur, rem) ==
    IF rem = 0 THEN "stopped"
    ELSE IF overflow' THEN "restart"
    ELSE IF cur # 0 THEN "read_burst"
    ELSE "assert_failed"

\* Where the burst loop goes with the given counters: on with readBurst,
\* out to stopped, or out to the restart after an overflow.
LoopNext(cur, rem) ==
    IF cur # 0 THEN "read_burst"
    ELSE IF rem = 0 THEN "stopped"
    ELSE IF overflow' THEN "restart"
    ELSE "assert_failed"

\* A bump down that takes num_buffer_bursts whatever is left to read.
BumpDownToBuffer(cur, num_buffer_bursts) == num_buffer_bursts

\* currentRemBursts after an overflow was detected with num_buffer_bursts
\* bursts left in the buffer.
BumpDown(cur, num_buffer_bursts) ==
    IF cur < 0 THEN num_buffer_bursts
    ELSE IF cur < num_buffer_bursts THEN cur ELSE num_buffer_bursts

\* A burst counter decremented whatever its value.
DecrementAlways(n) == n - 1

\* A burst counter after a burst was processed.
Decrement(n) == IF n > 0 THEN n - 1 ELSE n

\* An initial remainingBursts that takes NUM_BURSTS as it is.
InitialRemainingBurstsAsIs(num_bursts) == num_bursts

\* remainingBursts at the start of the read loop for the snapshot value of
\* NUM_BURSTS.
InitialRemainingBursts(num_bursts) == IF num_bursts = 0 THEN -1 ELSE num_bursts

\* goto stopped / goto error / stay in the function: the next position and
\* the value of had_error.
Goto(label) ==
    /\ pc' = IF label = "stopped" THEN "error" ELSE label
    /\ had_error' = IF label = "stopped" THEN FALSE ELSE had_error

\* m_start_arming_event.wait() and the declarations of the locals.
AcqWaitStart ==
    /\ pc = "wait_start"
    /\ m_start_arming_event
    /\ m_start_arming_event' = FALSE
    /\ pc' = "lock_arm"
    /\ LocalsInit
    /\ UNCHANGED <<portLock, m_supports_pre_samples, workerVars, timeArray,
                   writeVars, armRequestParam,
                   m_arm_state, armStateParam, m_requested_arm_state,
                   m_disarm_requested, m_requested_rearm_state,
                   m_in_read_loop, m_allowing_data,
                   m_disarm_requested_event, paramVars, submitVars, hist>>

\* lock() before waitForPreconditions.
AcqLockArm ==
    /\ pc = "lock_arm"
    /\ portLock = "free"
    /\ portLock' = "acq"
    /\ pc' = "wfp"
    /\ UNCHANGED <<m_supports_pre_samples, workerVars, timeArray,
                   writeVars, armRequestParam,
                   need_stop_acquisition, had_error, overflow,
                   remainingBursts, currentRemBursts, flagVars, paramVars,
                   submitVars, hist>>

\* The driver's waitForPreconditions unlocks the port to wait.
AcqWfpUnlock ==
    /\ pc = "wfp"
    /\ portLock' = "free"
    /\ pc' = "wfp_wait"
    /\ UNCHANGED <<m_supports_pre_samples, workerVars, timeArray,
                   writeVars, armRequestParam,
                   need_stop_acquisition, had_error, overflow,
                   remainingBursts, currentRemBursts, flagVars, paramVars,
                   submitVars, hist>>

\* The driver's waitForPreconditions locks the port again.
AcqWfpRelock ==
    /\ pc = "wfp_wait"
    /\ portLock = "free"
    /\ portLock' = "acq"
    /\ pc' = "wfp"
    /\ UNCHANGED <<m_supports_pre_samples, workerVars, timeArray,
                   writeVars, armRequestParam,
                   need_stop_acquisition, had_error, overflow,
                   remainingBursts, currentRemBursts, flagVars, paramVars,
                   submitVars, hist>>

\* waitForPreconditions returns ok, with the port locked.
AcqWaitForPreconditions(ok) ==
    /\ pc = "wfp"
    /\ IF ok
       THEN /\ pc' = "capture"
            /\ hist' = [hist EXCEPT !.desiredAtWfp = desired]
            /\ UNCHANGED portLock
       ELSE /\ portLock' = "free"
            /\ pc' = "error"
            /\ hist' = [hist EXCEPT !.failed = TRUE]
    /\ UNCHANGED <<m_supports_pre_samples, workerVars, timeArray,
                   writeVars, armRequestParam,
                   need_stop_acquisition, had_error, overflow,
                   remainingBursts, currentRemBursts, flagVars, paramVars,
                   submitVars>>

\* asynPortDriver::unlock called by the read thread: the holder of the port
\* lock and the record afterwards.  The mutex of the port refuses an unlock
\* by a thread that does not own it and stays as it is.
unlock(h) ==
    IF portLock = "acq"
    THEN [portLock |-> "free", hist |-> h]
    ELSE [portLock |-> portLock, hist |-> [h EXCEPT !.unlockNotHeld = TRUE]]

\* waitForPreconditions returns false as its documentation of the return
\* value has it, with the port not locked: the driver had unlocked the port
\* to wait and gives up.  readThreadIteration then calls unlock() and goes
\* to the error label.
AcqWaitForPreconditionsUnlocked ==
    /\ pc = "wfp_wait"
    /\ LET u == unlock([hist EXCEPT !.failed = TRUE])
       IN  /\ portLock' = u.portLock
           /\ hist' = u.hist
    /\ pc' = "error"
    /\ UNCHANGED <<m_supports_pre_samples, workerVars, timeArray,
                   writeVars, armRequestParam,
                   need_stop_acquisition, had_error, overflow,
                   remainingBursts, currentRemBursts, flagVars, paramVars,
                   submitVars>>

\* processConfigParams(setSnapshotToDesired) and checkBasicSettings.
AcqCapture ==
    /\ pc = "capture"
    /\ LET s == setSnapshotToDesired
           c == checkBasicSettings(s.snap, s.irr)
       IN  /\ m_snapshot_value' = c.snap
           /\ m_irrelevant' = c.irr
           /\ hist' = [hist EXCEPT !.failed = ~c.ok]
           /\ IF c.ok
              THEN /\ pc' = "check_settings"
                   /\ UNCHANGED portLock
              ELSE /\ pc' = "error"
                   /\ portLock' = "free"
    /\ UNCHANGED <<m_supports_pre_samples, workerVars, timeArray,
                   writeVars, armRequestParam,
                   need_stop_acquisition, had_error, overflow,
                   remainingBursts, currentRemBursts, flagVars, desired,
                   effective, effectiveSampleRate, m_rate_for_display,
                   submitVars>>

\* TRTimeArrayDriver::setTimeArrayParams: the time array driver afterwards.
setTimeArrayParams(unit, num_pre, num_post) ==
    [m_unit |-> unit, m_num_pre |-> num_pre, m_num_post |-> num_post,
     UPDATE |-> IF timeArray.UPDATE = 0 THEN 1 ELSE 0]

\* 1.0 / rate for the display rates of the model.
Reciprocal(rate) == IF rate = 1 THEN 1 ELSE NAN

\* TRBaseDriver::setupTimeArray with m_rate_for_display = rate, called with
\* the snapshot of the arming: the time array driver afterwards.
setupTimeArray(rate) ==
    LET unit == Reciprocal(rate)
        num_post == m_snapshot_value["NUM_POST_SAMPLES"]
        num_pre_post == m_snapshot_value["NUM_PRE_POST_SAMPLES"]
        num_pre == IF num_pre_post = 0 THEN 0 ELSE num_pre_post - num_post
    IN  setTimeArrayParams(unit, num_pre, num_post)

\* checkSettings returns ok with arm_info.rate_for_display = rate; on
\* success the effective values are set and the burst counters initialised.
\* The time array port, which nothing in the port driver reads, is left to
\* AcqCheckSettingsArmInfo.
AcqCheckSettings(ok, rate) ==
    /\ pc = "check_settings"
    /\ IF ok /\ rate # NAN
       THEN /\ m_rate_for_display' = rate
            /\ setEffectiveParams(rate)
            /\ remainingBursts' =
                 InitialRemainingBursts(m_snapshot_value["NUM_BURSTS"])
            /\ overflow' = FALSE
            /\ pc' = "outer"
            /\ UNCHANGED <<portLock, hist>>
       ELSE /\ portLock' = "free"
            /\ pc' = "error"
            /\ hist' = [hist EXCEPT !.failed = TRUE]
            /\ UNCHANGED <<m_rate_for_display, effective,
                           effectiveSampleRate, remainingBursts, overflow>>
    /\ UNCHANGED <<m_supports_pre_samples, workerVars, timeArray,
                   writeVars, armRequestParam,
                   need_stop_acquisition, had_error, currentRemBursts,
                   flagVars, desired, m_snapshot_value, m_irrelevant,
                   submitVars>>

\* The same step with the time array port followed as well: checkSettings
\* returns ok having filled arm_info with rate_for_display = rate and the
\* custom inputs of the time array; on success setupTimeArray programs the
\* time array driver.  The record keeps the arm_info of the arming.
AcqCheckSettingsArmInfo(ok, rate, arm_info) ==
    /\ pc = "check_settings"
    /\ IF ok /\ rate # NAN
       THEN /\ m_rate_for_display' = rate
            /\ setEffectiveParams(rate)
            /\ timeArray' = setupTimeArray(rate)
            /\ remainingBursts' =
                 InitialRemainingBursts(m_snapshot_value["NUM_BURSTS"])
            /\ overflow' = FALSE
            /\ pc' = "outer"
            /\ hist' = [hist EXCEPT !.armInfo = arm_info]
            /\ UNCHANGED portLock
       ELSE /\ portLock' = "free"
            /\ pc' = "error"
            /\ hist' = [hist EXCEPT !.failed = TRUE]
            /\ UNCHANGED <<m_rate_for_display, effective,
                           effectiveSampleRate, remainingBursts, overflow,
                           timeArray>>
    /\ UNCHANGED <<m_supports_pre_samples, workerVars,
                   writeVars, armRequestParam,
                   need_stop_acquisition, had_error, currentRemBursts,
                   flagVars, desired, m_snapshot_value, m_irrelevant,
                   submitVars>>

\* A top of the overflow-recovery loop that does not set
\* need_stop_acquisition.
AcqOuterTopNoNeedStop ==
    /\ pc = "outer"
    /\ portLock' = "free"
    /\ IF m_disarm_requested
       THEN /\ Goto("stopped")
            /\ UNCHANGED m_allowing_data
       ELSE /\ m_allowing_data' = TRUE
            /\ pc' = "start_acq"
            /\ UNCHANGED had_error
    /\ UNCHANGED <<m_supports_pre_samples, workerVars, timeArray,
                   writeVars, armRequestParam, overflow,
                   remainingBursts, currentRemBursts, m_arm_state,
                   armStateParam, m_requested_arm_state, m_disarm_requested,
                   m_requested_rearm_state, m_in_read_loop,
                   m_start_arming_event, m_disarm_requested_event,
                   need_stop_acquisition, paramVars, submitVars, hist>>

\* A top of the overflow-recovery loop that keeps the port locked.
AcqOuterTopKeepLock ==
    /\ pc = "outer"
    /\ UNCHANGED portLock
    /\ IF m_disarm_requested
       THEN /\ Goto("stopped")
            /\ UNCHANGED <<m_allowing_data, need_stop_acquisition>>
       ELSE /\ m_allowing_data' = TRUE
            /\ need_stop_acquisition' = TRUE
            /\ pc' = "start_acq"
            /\ UNCHANGED had_error
    /\ UNCHANGED <<m_supports_pre_samples, workerVars, timeArray,
                   writeVars, armRequestParam, overflow,
                   remainingBursts, currentRemBursts, m_arm_state,
                   armStateParam, m_requested_arm_state, m_disarm_requested,
                   m_requested_rearm_state, m_in_read_loop,
                   m_start_arming_event, m_disarm_requested_event,
                   paramVars, submitVars, hist>>

\* The top of the overflow-recovery loop, with the port locked.
AcqOuterTop ==
    /\ pc = "outer"
    /\ portLock' = "free"
    /\ IF m_disarm_requested
       THEN /\ Goto("stopped")
            /\ UNCHANGED <<m_allowing_data, need_stop_acquisition>>
       ELSE /\ m_allowing_data' = TRUE
            /\ need_stop_acquisition' = TRUE
            /\ pc' = "start_acq"
            /\ UNCHANGED had_error
    /\ UNCHANGED <<m_supports_pre_samples, workerVars, timeArray,
                   writeVars, armRequestParam, overflow,
                   remainingBursts, currentRemBursts, m_arm_state,
                   armStateParam, m_requested_arm_state, m_disarm_requested,
                   m_requested_rearm_state, m_in_read_loop,
                   m_start_arming_event, m_disarm_requested_event,
                   paramVars, submitVars, hist>>

\* startAcquisition(overflow) returns ok.
AcqStartAcquisition(ok) ==
    /\ pc = "start_acq"
    /\ pc' = IF ok THEN "after_start" ELSE "error"
    /\ hist' = [hist EXCEPT !.nStart = Sat(@), !.failed = @ \/ ~ok]
    /\ UNCHANGED <<portLock, m_supports_pre_samples, workerVars, timeArray,
                   writeVars, armRequestParam,
                   need_stop_acquisition, had_error, overflow,
                   remainingBursts, currentRemBursts, flagVars, paramVars,
                   submitVars>>

\* The locked block after startAcquisition and the initialisation of the
\* burst loop.
AcqAfterStart ==
    /\ pc = "after_start"
    /\ portLock = "free"
    /\ IF m_disarm_requested
       THEN /\ Goto("stopped")
            /\ UNCHANGED <<m_arm_state, armStateParam, m_in_read_loop,
                           currentRemBursts, overflow, hist>>
       ELSE /\ IF ~overflow
               THEN /\ setArmState(m_requested_arm_state)
                    /\ hist' = Published(hist, armStateParam')
               ELSE UNCHANGED <<m_arm_state, armStateParam, hist>>
            /\ m_in_read_loop' = TRUE
            /\ currentRemBursts' = remainingBursts
            /\ overflow' = FALSE
            /\ Goto(LoopNext(remainingBursts, remainingBursts))
    /\ UNCHANGED <<portLock, m_supports_pre_samples, workerVars, timeArray,
                   writeVars, armRequestParam,
                   need_stop_acquisition, remainingBursts,
                   m_requested_arm_state, m_disarm_requested,
                   m_requested_rearm_state, m_allowing_data,
                   m_start_arming_event, m_disarm_requested_event,
                   paramVars, submitVars>>

\* readBurst returns ok.
AcqReadBurst(ok) ==
    /\ pc = "read_burst"
    /\ pc' = IF ok THEN "check_disarm" ELSE "error"
    /\ hist' = [hist EXCEPT !.failed = @ \/ ~ok]
    /\ UNCHANGED <<portLock, m_supports_pre_samples, workerVars, timeArray,
                   writeVars, armRequestParam,
                   need_stop_acquisition, had_error, overflow,
                   remainingBursts, currentRemBursts, flagVars, paramVars,
                   submitVars>>

\* A check that never sees the disarm request.
checkDisarmRequestedNever == FALSE

\* TRBaseDriver::checkDisarmRequestedUnlocked: m_disarm_requested as read
\* with the port locked.
checkDisarmRequestedUnlocked == m_disarm_requested

\* TRBaseDriver::readBurst as the base class defines it, for drivers that
\* do not use the read loop: waitUntilDisarming (wait for the event, signal
\* it again), then return true.
AcqReadBurstDefault ==
    /\ pc = "read_burst"
    /\ m_disarm_requested_event
    /\ pc' = "check_disarm"
    /\ UNCHANGED <<portLock, m_supports_pre_samples, workerVars, timeArray,
                   writeVars, armRequestParam,
                   need_stop_acquisition, had_error, overflow,
                   remainingBursts, currentRemBursts, flagVars, paramVars,
                   submitVars, hist>>

\* The disarm check after readBurst: lock(), read the flag, unlock().
AcqCheckDisarm ==
    /\ pc = "check_disarm"
    /\ portLock = "free"
    /\ IF checkDisarmRequestedUnlocked
       THEN Goto("stopped")
       ELSE Goto(IF ~overflow THEN "check_overflow" ELSE "process")
    /\ UNCHANGED <<portLock, m_supports_pre_samples, workerVars, timeArray,
                   writeVars, armRequestParam,
                   need_stop_acquisition, overflow, remainingBursts,
                   currentRemBursts, flagVars, paramVars, submitVars, hist>>

\* checkOverflow returns ok with *had_overflow = overflow_detected and
\* *num_buffer_bursts = num_buffer_bursts.
AcqCheckOverflow(ok, overflow_detected, num_buffer_bursts) ==
    /\ pc = "check_overflow"
    /\ pc' = IF ok THEN "process" ELSE "error"
    /\ IF ok /\ overflow_detected
       THEN /\ overflow' = TRUE
            /\ currentRemBursts' = BumpDown(currentRemBursts, num_buffer_bursts)
       ELSE UNCHANGED <<overflow, currentRemBursts>>
    /\ hist' = [hist EXCEPT !.failed = @ \/ ~ok]
    /\ UNCHANGED <<portLock, m_supports_pre_samples, workerVars, timeArray,
                   writeVars, armRequestParam,
                   need_stop_acquisition, had_error, remainingBursts,
                   flagVars, paramVars, submitVars>>

\* processBurstData returns ok; then the counters are decremented,
\* maybeSleepForTesting is called and the loop condition is tested.
AcqProcessBurstData(ok) ==
    /\ pc = "process"
    /\ portLock = "free"
    /\ hist' = [hist EXCEPT
                  !.nProcess = IF @ <= MaxBursts THEN @ + 1 ELSE @,
                  !.failed = @ \/ ~ok]
    /\ IF ok
       THEN /\ currentRemBursts' = Decrement(currentRemBursts)
            /\ remainingBursts' = Decrement(remainingBursts)
            /\ UNCHANGED overflow
            /\ Goto(LoopNext(currentRemBursts', remainingBursts'))
       ELSE /\ Goto("error")
            /\ UNCHANGED <<currentRemBursts, remainingBursts, overflow>>
    /\ UNCHANGED <<portLock, m_supports_pre_samples, workerVars, timeArray,
                   writeVars, armRequestParam,
                   need_stop_acquisition, flagVars, paramVars, submitVars>>

\* A restart after an overflow that publishes Busy.
AcqRestartPublishingBusy ==
    /\ pc = "restart"
    /\ portLock = "free"
    /\ portLock' = "acq"
    /\ m_in_read_loop' = FALSE
    /\ pc' = "outer"
    /\ setArmState(ArmStateBusy)
    /\ hist' = Published(hist, armStateParam')
    /\ UNCHANGED <<m_supports_pre_samples, workerVars, timeArray,
                   writeVars, armRequestParam,
                   need_stop_acquisition, had_error, overflow,
                   remainingBursts, currentRemBursts,
                   m_requested_arm_state, m_disarm_requested,
                   m_requested_rearm_state, m_allowing_data,
                   m_start_arming_event, m_disarm_requested_event,
                   paramVars, submitVars>>

\* The restart after an overflow: lock() and back to the top of the
\* overflow-recovery loop.
AcqRestart ==
    /\ pc = "restart"
    /\ portLock = "free"
    /\ portLock' = "acq"
    /\ m_in_read_loop' = FALSE
    /\ pc' = "outer"
    /\ UNCHANGED <<m_supports_pre_samples, workerVars, timeArray,
                   writeVars, armRequestParam,
                   need_stop_acquisition, had_error, overflow,
                   remainingBursts, currentRemBursts, m_arm_state,
                   armStateParam, m_requested_arm_state, m_disarm_requested,
                   m_requested_rearm_state, m_allowing_data,
                   m_start_arming_event, m_disarm_requested_event,
                   paramVars, submitVars, hist>>

\* An end of the arming that ignores the pending rearming.
FinishArmingNoRearm(in_read_loop) ==
    /\ clearEffectiveParams
    /\ m_disarm_requested_event' = FALSE
    /\ setArmState(ArmStateDisarm)
    /\ hist' = Published(hist, armStateParam')
    /\ m_in_read_loop' = in_read_loop
    /\ UNCHANGED <<m_requested_arm_state, m_disarm_requested,
                   m_requested_rearm_state, m_start_arming_event>>
    /\ portLock' = "free"
    /\ pc' = "wait_start"
    /\ LocalsInit

\* An end of the arming that leaves m_disarm_requested_event as it is.
FinishArmingKeepEvent(in_read_loop) ==
    /\ clearEffectiveParams
    /\ UNCHANGED m_disarm_requested_event
    /\ IF m_requested_rearm_state # ArmStateDisarm
       THEN startArming(m_requested_rearm_state, <<>>)
       ELSE /\ setArmState(ArmStateDisarm)
            /\ hist' = Published(hist, armStateParam')
            /\ m_in_read_loop' = in_read_loop
            /\ UNCHANGED <<m_requested_arm_state, m_disarm_requested,
                           m_requested_rearm_state, m_start_arming_event>>
    /\ portLock' = "free"
    /\ pc' = "wait_start"
    /\ LocalsInit

\* The end of readThreadIteration with the port locked, from
\* clearEffectiveParams to unlock(): either the pending rearming is started
\* or ARM_STATE becomes Disarm.  in_read_loop is the value m_in_read_loop has
\* when this point is reached.
FinishArming(in_read_loop) ==
    /\ clearEffectiveParams
    /\ m_disarm_requested_event' = FALSE
    /\ IF m_requested_rearm_state # ArmStateDisarm
       THEN startArming(m_requested_rearm_state, <<>>)
       ELSE /\ setArmState(ArmStateDisarm)
            /\ hist' = Published(hist, armStateParam')
            /\ m_in_read_loop' = in_read_loop
            /\ UNCHANGED <<m_requested_arm_state, m_disarm_requested,
                           m_requested_rearm_state, m_start_arming_event>>
    /\ portLock' = "free"
    /\ pc' = "wait_start"
    /\ LocalsInit

\* A cleanup that leaves m_allowing_data as it is.
StopOrFinishAllowing(in_read_loop) ==
    /\ UNCHANGED m_allowing_data
    /\ IF need_stop_acquisition
       THEN /\ pc' = "stop_acq"
            /\ UNCHANGED <<portLock, need_stop_acquisition, had_error,
                           overflow, remainingBursts, currentRemBursts,
                           m_arm_state, armStateParam, m_requested_arm_state,
                           m_disarm_requested, m_requested_rearm_state,
                           m_start_arming_event, m_disarm_requested_event,
                           effective, effectiveSampleRate, hist>>
            /\ m_in_read_loop' = in_read_loop
       ELSE FinishArming(in_read_loop)

\* The locked block from m_allowing_data = false on: stopAcquisition is
\* called next if it is needed, else the arming is finished.  in_read_loop
\* is the value m_in_read_loop has when this point is reached.
StopOrFinish(in_read_loop) ==
    /\ m_allowing_data' = FALSE
    /\ IF need_stop_acquisition
       THEN /\ pc' = "stop_acq"
            /\ UNCHANGED <<portLock, need_stop_acquisition, had_error,
                           overflow, remainingBursts, currentRemBursts,
                           m_arm_state, armStateParam, m_requested_arm_state,
                           m_disarm_requested, m_requested_rearm_state,
                           m_start_arming_event, m_disarm_requested_event,
                           effective, effectiveSampleRate, hist>>
            /\ m_in_read_loop' = in_read_loop
       ELSE FinishArming(in_read_loop)

\* The entry of the cleanup at the labels stopped and error: lock() and
\* m_in_read_loop = false, then either the Error state or the rest of the
\* locked block.
AcqCleanup ==
    /\ pc = "error"
    /\ portLock = "free"
    /\ IF had_error /\ ~m_disarm_requested
       THEN /\ m_in_read_loop' = FALSE
            /\ setArmState(ArmStateError)
            /\ hist' = Published(hist, armStateParam')
            /\ pc' = "wait_disarm"
            /\ UNCHANGED <<portLock, need_stop_acquisition, had_error,
                           overflow, remainingBursts, currentRemBursts,
                           m_requested_arm_state, m_disarm_requested,
                           m_requested_rearm_state, m_allowing_data,
                           m_start_arming_event, m_disarm_requested_event,
                           effective, effectiveSampleRate>>
       ELSE StopOrFinish(FALSE)
    /\ UNCHANGED <<m_supports_pre_samples, workerVars, timeArray,
                   writeVars, armRequestParam, desired,
                   m_snapshot_value, m_irrelevant, m_rate_for_display,
                   submitVars>>

\* A waitUntilDisarming that returns without waiting for the event.
AcqWaitUntilDisarmingNoWait ==
    /\ pc = "wait_disarm"
    /\ pc' = "relock"
    /\ UNCHANGED <<portLock, m_supports_pre_samples, workerVars, timeArray,
                   writeVars, armRequestParam,
                   need_stop_acquisition, had_error, overflow,
                   remainingBursts, currentRemBursts, flagVars, paramVars,
                   submitVars, hist>>

\* waitUntilDisarming in the Error state: wait for the event, signal it
\* again.
AcqWaitUntilDisarming ==
    /\ pc = "wait_disarm"
    /\ m_disarm_requested_event
    /\ pc' = "relock"
    /\ UNCHANGED <<portLock, m_supports_pre_samples, workerVars, timeArray,
                   writeVars, armRequestParam,
                   need_stop_acquisition, had_error, overflow,
                   remainingBursts, currentRemBursts, flagVars, paramVars,
                   submitVars, hist>>

\* lock() after waitUntilDisarming and the rest of the locked block.
AcqRelock ==
    /\ pc = "relock"
    /\ portLock = "free"
    /\ StopOrFinish(m_in_read_loop)
    /\ UNCHANGED <<m_supports_pre_samples, workerVars, timeArray,
                   writeVars, armRequestParam, desired,
                   m_snapshot_value, m_irrelevant, m_rate_for_display,
                   submitVars>>

\* stopAcquisition is called and returns.
AcqStopAcquisition ==
    /\ pc = "stop_acq"
    /\ pc' = "finish"
    /\ hist' = [hist EXCEPT !.nStop = Sat(@)]
    /\ UNCHANGED <<portLock, m_supports_pre_samples, workerVars, timeArray,
                   writeVars, armRequestParam,
                   need_stop_acquisition, had_error, overflow,
                   remainingBursts, currentRemBursts, flagVars, paramVars,
                   submitVars>>

\* lock() after stopAcquisition and the end of the arming.
AcqFinish ==
    /\ pc = "finish"
    /\ portLock = "free"
    /\ FinishArming(m_in_read_loop)
    /\ UNCHANGED <<m_supports_pre_samples, workerVars, timeArray,
                   writeVars, armRequestParam, desired,
                   m_snapshot_value, m_irrelevant, m_rate_for_display,
                   m_allowing_data, submitVars>>

\* ------------------------------------------------------------------------
\* TRWorkerThread and TRWorkerThreadTask
\* ------------------------------------------------------------------------

\* The task objects of the model, each made by the constructor that takes
\* the worker, the runnable and the id.
Tasks == {1, 2}

\* The id the owner of task t gives it at construction.
IdGiven(t) == 10 * t

\* The values a read of m_id may give: the ids given, and 0.
Ids == {0} \cup {IdGiven(t) : t \in Tasks}

\* The record of the worker's queue:
\*   nStarts           start() calls that have queued a task; the n-th of
\*                     them gives its task the ticket n
\*   ticket            ticket of each task while it is queued, else 0
\*   runTicket         ticket of the task taken from the queue last
\*   calledTickets     tickets for which runWorkerThreadTask was called
\*   cancelledTickets  tickets erased from the queue by cancel or by the
\*                     destructor
\*   lastId            id of the last call of runWorkerThreadTask
WorkerHistInit ==
    [nStarts |-> 0, ticket |-> [t \in Tasks |-> 0], runTicket |-> 0,
     calledTickets |-> {}, cancelledTickets |-> {}, lastId |-> 0]

Range(q) == {q[i] : i \in 1..Len(q)}

\* std::find(m_queue.begin(), m_queue.end(), t) != m_queue.end().
Queued(t) == t \in Range(m_queue)

\* m_queue.erase(it) for the task t.
erase(q, t) == SelectSeq(q, LAMBDA x : x # t)

\* A start that queues the task whether or not it is queued already.
TaskStartLockedNoFind(t) ==
    /\ t \notin destroyed
    /\ m_worker[t] # NULL
    /\ startPc[t] = "idle"
    /\ m_mutex = "free"
    /\ whist.nStarts < MaxStarts
    /\ m_queue' = Append(m_queue, t)
    /\ startPc' = [startPc EXCEPT ![t] = "signal"]
    /\ whist' = [whist EXCEPT !.nStarts = @ + 1,
                              !.ticket[t] = whist.nStarts + 1]
    /\ UNCHANGED lastReturn
    /\ UNCHANGED <<m_stop, m_event, m_mutex, workerPc, task, m_worker, m_id,
                   destroyed, stopPc>>
    /\ UNCHANGED controllerVars

\* TRWorkerThreadTask::start, the block that holds m_mutex: the task is
\* looked up in the queue; if it is there start returns false, else it is
\* pushed to the back and start goes on to signal the event.
TaskStartLocked(t) ==
    /\ t \notin destroyed
    /\ m_worker[t] # NULL
    /\ startPc[t] = "idle"
    /\ m_mutex = "free"
    /\ whist.nStarts < MaxStarts
    /\ IF Queued(t)
       THEN /\ lastReturn' = [op |-> "start", value |-> FALSE]
            /\ UNCHANGED <<m_queue, startPc, whist>>
       ELSE /\ m_queue' = Append(m_queue, t)
            /\ startPc' = [startPc EXCEPT ![t] = "signal"]
            /\ whist' = [whist EXCEPT !.nStarts = @ + 1,
                                      !.ticket[t] = whist.nStarts + 1]
            /\ UNCHANGED lastReturn
    /\ UNCHANGED <<m_stop, m_event, m_mutex, workerPc, task, m_worker, m_id,
                   destroyed, stopPc>>
    /\ UNCHANGED controllerVars

\* A start that returns true without signalling the event.
TaskStartSignalLost(t) ==
    /\ startPc[t] = "signal"
    /\ startPc' = [startPc EXCEPT ![t] = "idle"]
    /\ lastReturn' = [op |-> "start", value |-> TRUE]
    /\ UNCHANGED <<m_stop, m_queue, m_event, m_mutex, workerPc, task,
                   m_worker, m_id, destroyed, stopPc, whist>>
    /\ UNCHANGED controllerVars

\* TRWorkerThreadTask::start after the block: m_event.signal() and
\* return true.
TaskStartSignal(t) ==
    /\ startPc[t] = "signal"
    /\ m_event' = TRUE
    /\ startPc' = [startPc EXCEPT ![t] = "idle"]
    /\ lastReturn' = [op |-> "start", value |-> TRUE]
    /\ UNCHANGED <<m_stop, m_queue, m_mutex, workerPc, task, m_worker, m_id,
                   destroyed, stopPc, whist>>
    /\ UNCHANGED controllerVars

\* The record after the task t was looked up and, if queued, erased.
Cancelled(h, t) ==
    IF Queued(t)
    THEN [h EXCEPT !.cancelledTickets = @ \cup {h.ticket[t]},
                   !.ticket[t] = 0]
    ELSE h

\* A cancel that returns whether the task was queued and leaves it queued.
TaskCancelKeeping(t) ==
    /\ t \notin destroyed
    /\ m_worker[t] # NULL
    /\ m_mutex = "free"
    /\ UNCHANGED m_queue
    /\ lastReturn' = [op |-> "cancel", value |-> Queued(t)]
    /\ whist' = Cancelled(whist, t)
    /\ UNCHANGED <<m_stop, m_event, m_mutex, workerPc, task, m_worker, m_id,
                   destroyed, startPc, stopPc>>
    /\ UNCHANGED controllerVars

\* TRWorkerThreadTask::cancel.
TaskCancel(t) ==
    /\ t \notin destroyed
    /\ m_worker[t] # NULL
    /\ m_mutex = "free"
    /\ m_queue' = erase(m_queue, t)
    /\ lastReturn' = [op |-> "cancel", value |-> Queued(t)]
    /\ whist' = Cancelled(whist, t)
    /\ UNCHANGED <<m_stop, m_event, m_mutex, workerPc, task, m_worker, m_id,
                   destroyed, startPc, stopPc>>
    /\ UNCHANGED controllerVars

\* TRWorkerThreadTask::~TRWorkerThreadTask, called when no start or cancel
\* of the task is under way: cancel() if the task was initialised.
TaskDestroy(t) ==
    /\ t \notin destroyed
    /\ startPc[t] = "idle"
    /\ destroyed' = destroyed \cup {t}
    /\ IF m_worker[t] # NULL
       THEN /\ m_mutex = "free"
            /\ m_queue' = erase(m_queue, t)
            /\ whist' = Cancelled(whist, t)
       ELSE UNCHANGED <<m_queue, whist>>
    /\ UNCHANGED <<m_stop, m_event, m_mutex, workerPc, task, m_worker, m_id,
                   startPc, stopPc, lastReturn>>
    /\ UNCHANGED controllerVars

\* TRWorkerThread::start: the thread begins to run.
WorkerThreadStart ==
    /\ workerPc = "created"
    /\ workerPc' = "lock"
    /\ UNCHANGED <<m_stop, m_queue, m_event, m_mutex, task, m_worker, m_id,
                   destroyed, startPc, stopPc, lastReturn, whist>>
    /\ UNCHANGED controllerVars

\* TRWorkerThread::run takes m_mutex: the guard at its entry, and the end of
\* an epicsGuardRelease block.
WorkerLock ==
    /\ workerPc = "lock"
    /\ m_mutex = "free"
    /\ m_mutex' = "worker"
    /\ workerPc' = "top"
    /\ UNCHANGED <<m_stop, m_queue, m_event, task, m_worker, m_id,
                   destroyed, startPc, stopPc, lastReturn, whist>>
    /\ UNCHANGED controllerVars

\* A loop body that takes the task from the back of the queue.
WorkerTopBack ==
    /\ workerPc = "top"
    /\ IF m_stop
       THEN /\ workerPc' = "exited"
            /\ m_mutex' = "free"
            /\ UNCHANGED <<m_queue, task, whist>>
       ELSE IF m_queue = <<>>
            THEN /\ workerPc' = "try_wait"
                 /\ UNCHANGED <<m_mutex, m_queue, task, whist>>
            ELSE LET t == m_queue[Len(m_queue)]
                 IN  /\ task' = t
                     /\ m_queue' = SubSeq(m_queue, 1, Len(m_queue) - 1)
                     /\ m_mutex' = "free"
                     /\ workerPc' = "run"
                     /\ whist' = [whist EXCEPT
                                    !.runTicket = whist.ticket[t],
                                    !.ticket[t] = 0]
    /\ UNCHANGED <<m_stop, m_event, m_worker, m_id, destroyed, startPc,
                   stopPc, lastReturn>>
    /\ UNCHANGED controllerVars

\* A loop body that releases m_mutex before it clears the event: tryWait
\* is called in the block that waits.
WorkerTopReleasing ==
    /\ workerPc = "top"
    /\ IF m_stop
       THEN /\ workerPc' = "exited"
            /\ m_mutex' = "free"
            /\ UNCHANGED <<m_queue, task, whist>>
       ELSE IF m_queue = <<>>
            THEN /\ workerPc' = "try_wait"
                 /\ m_mutex' = "free"
                 /\ UNCHANGED <<m_queue, task, whist>>
            ELSE LET t == Head(m_queue)
                 IN  /\ task' = t
                     /\ m_queue' = Tail(m_queue)
                     /\ m_mutex' = "free"
                     /\ workerPc' = "run"
                     /\ whist' = [whist EXCEPT
                                    !.runTicket = whist.ticket[t],
                                    !.ticket[t] = 0]
    /\ UNCHANGED <<m_stop, m_event, m_worker, m_id, destroyed, startPc,
                   stopPc, lastReturn>>
    /\ UNCHANGED controllerVars

\* The body of the loop of TRWorkerThread::run, with m_mutex held: leave if
\* m_stop is set; go to wait if the queue is empty; else take the task at
\* the front of the queue and release m_mutex to execute it.
WorkerTop ==
    /\ workerPc = "top"
    /\ IF m_stop
       THEN /\ workerPc' = "exited"
            /\ m_mutex' = "free"
            /\ UNCHANGED <<m_queue, task, whist>>
       ELSE IF m_queue = <<>>
            THEN /\ workerPc' = "try_wait"
                 /\ UNCHANGED <<m_mutex, m_queue, task, whist>>
            ELSE LET t == Head(m_queue)
                 IN  /\ task' = t
                     /\ m_queue' = Tail(m_queue)
                     /\ m_mutex' = "free"
                     /\ workerPc' = "run"
                     /\ whist' = [whist EXCEPT
                                    !.runTicket = whist.ticket[t],
                                    !.ticket[t] = 0]
    /\ UNCHANGED <<m_stop, m_event, m_worker, m_id, destroyed, startPc,
                   stopPc, lastReturn>>
    /\ UNCHANGED controllerVars

\* m_event.tryWait() with m_mutex held, then the release of m_mutex.
WorkerTryWait ==
    /\ workerPc = "try_wait"
    /\ m_event' = FALSE
    /\ m_mutex' = "free"
    /\ workerPc' = "wait"
    /\ UNCHANGED <<m_stop, m_queue, task, m_worker, m_id, destroyed,
                   startPc, stopPc, lastReturn, whist>>
    /\ UNCHANGED controllerVars

\* m_event.wait() returns.
WorkerWait ==
    /\ workerPc = "wait"
    /\ m_event
    /\ m_event' = FALSE
    /\ workerPc' = "lock"
    /\ UNCHANGED <<m_stop, m_queue, m_mutex, task, m_worker, m_id,
                   destroyed, startPc, stopPc, lastReturn, whist>>
    /\ UNCHANGED controllerVars

\* task->m_runnable->runWorkerThreadTask(task->m_id) is called with the
\* id read from the task; the read of a task destroyed meanwhile gives any
\* value.
WorkerCall(id) ==
    /\ workerPc = "run"
    /\ IF task \in destroyed THEN id \in Ids ELSE id = m_id[task]
    /\ workerPc' = "running"
    /\ whist' = [whist EXCEPT !.calledTickets = @ \cup {whist.runTicket},
                              !.lastId = id]
    /\ UNCHANGED <<m_stop, m_queue, m_event, m_mutex, task, m_worker, m_id,
                   destroyed, startPc, stopPc, lastReturn>>
    /\ UNCHANGED controllerVars

\* runWorkerThreadTask returns.
WorkerReturn ==
    /\ workerPc = "running"
    /\ workerPc' = "lock"
    /\ task' = NULL
    /\ UNCHANGED <<m_stop, m_queue, m_event, m_mutex, m_worker, m_id,
                   destroyed, startPc, stopPc, lastReturn, whist>>
    /\ UNCHANGED controllerVars

\* TRWorkerThread::stop, called once after start: the block that sets
\* m_stop with m_mutex held.
StopSetFlag ==
    /\ stopPc = "idle"
    /\ workerPc # "created"
    /\ m_mutex = "free"
    /\ m_stop' = TRUE
    /\ stopPc' = "signal"
    /\ UNCHANGED <<m_queue, m_event, m_mutex, workerPc, task, m_worker,
                   m_id, destroyed, startPc, lastReturn, whist>>
    /\ UNCHANGED controllerVars

\* TRWorkerThread::stop: m_event.signal().
StopSignal ==
    /\ stopPc = "signal"
    /\ m_event' = TRUE
    /\ stopPc' = "exit_wait"
    /\ UNCHANGED <<m_stop, m_queue, m_mutex, workerPc, task, m_worker, m_id,
                   destroyed, startPc, lastReturn, whist>>
    /\ UNCHANGED controllerVars

\* TRWorkerThread::stop: m_thread.exitWait() returns.
StopExitWait ==
    /\ stopPc = "exit_wait"
    /\ workerPc = "exited"
    /\ stopPc' = "stopped"
    /\ UNCHANGED <<m_stop, m_queue, m_event, m_mutex, workerPc, task,
                   m_worker, m_id, destroyed, startPc, lastReturn, whist>>
    /\ UNCHANGED controllerVars

\* ------------------------------------------------------------------------
\* Specifications
\* ------------------------------------------------------------------------

\* The state after the constructor and completeInit.  TRConfigParam::init
\* leaves the desired values to the records that initialise them, so what
\* the first snapshot reads is any setting of the counts; the two sample
\* rates, on which no decision of the framework depends, start equal.
\* m_requested_arm_state, m_disarm_requested, m_requested_rearm_state and
\* m_in_read_loop are first read after startArming has assigned them.
\* BURST_ID, the BURST_TIME parameters and SLEEP_AFTER_BURST are created
\* without a value, which is 0 here.
Init ==
    /\ pc = "wait_start"
    /\ portLock = "free"
    /\ m_supports_pre_samples \in BOOLEAN
    /\ armRequestParam = ArmStateDisarm
    /\ armStateParam = ArmStateDisarm
    /\ effectiveSampleRate = NAN
    /\ desired \in [ParamNames -> (-1)..MaxBursts]
    /\ \A p \in ParamNames : desired[p] \in DesiredValues(p)
    /\ desired["REQUESTED_SAMPLE_RATE"] = 1
    /\ desired["ACHIEVABLE_SAMPLE_RATE"] = 1
    /\ effective = [p \in ParamNames |-> m_invalid_value[p]]
    /\ m_snapshot_value = [p \in ParamNames |-> 0]
    /\ m_irrelevant = [p \in ParamNames |-> TRUE]
    /\ m_arm_state = ArmStateDisarm
    /\ m_requested_arm_state = ArmStateDisarm
    /\ m_disarm_requested = FALSE
    /\ m_requested_rearm_state = ArmStateDisarm
    /\ m_in_read_loop = FALSE
    /\ m_allowing_data = FALSE
    /\ m_rate_for_display = 0
    /\ m_start_arming_event = FALSE
    /\ m_disarm_requested_event = FALSE
    /\ need_stop_acquisition = FALSE
    /\ had_error = TRUE
    /\ overflow = FALSE
    /\ remainingBursts = 0
    /\ currentRemBursts = 0
    /\ subPc = "idle"
    /\ proceed = TRUE
    /\ baseParams = [n \in BaseParamNames |-> 0]
    /\ lastWriteStatus = "none"
    /\ timeArray = [m_unit |-> 0, m_num_pre |-> 0, m_num_post |-> 0,
                    UPDATE |-> 0]
    /\ hist = HistInit
    /\ m_stop = FALSE
    /\ m_queue = <<>>
    /\ m_event = FALSE
    /\ m_mutex = "free"
    /\ workerPc = "created"
    /\ task = NULL
    /\ m_worker = [t \in Tasks |-> Worker]
    /\ m_id = [t \in Tasks |-> IdGiven(t)]
    /\ destroyed = {}
    /\ startPc = [t \in Tasks |-> "idle"]
    /\ stopPc = "idle"
    /\ lastReturn = [op |-> "none", value |-> FALSE]
    /\ whist = WorkerHistInit

\* The port driver with its read thread, a client writing ARM_REQUEST and a
\* driver requesting disarming.
Next ==
    \/ \E value \in ArmRequestValues : WriteArmRequest(value)
    \/ requestDisarmingFromDriver
    \/ AcqWaitStart
    \/ AcqLockArm
    \/ AcqWfpUnlock
    \/ AcqWfpRelock
    \/ \E ok \in BOOLEAN : AcqWaitForPreconditions(ok)
    \/ AcqCapture
    \/ \E ok \in BOOLEAN : \E rate \in RateForDisplayValues :
          AcqCheckSettings(ok, rate)
    \/ AcqOuterTop
    \/ \E ok \in BOOLEAN : AcqStartAcquisition(ok)
    \/ AcqAfterStart
    \/ \E ok \in BOOLEAN : AcqReadBurst(ok)
    \/ AcqCheckDisarm
    \/ \E ok \in BOOLEAN : \E overflow_detected \in BOOLEAN :
          \E num_buffer_bursts \in 1..MaxBufferBursts :
             AcqCheckOverflow(ok, overflow_detected, num_buffer_bursts)
    \/ \E ok \in BOOLEAN : AcqProcessBurstData(ok)
    \/ AcqRestart
    \/ AcqCleanup
    \/ AcqWaitUntilDisarming
    \/ AcqRelock
    \/ AcqStopAcquisition
    \/ AcqFinish

Spec == Init /\ [][Next]_vars

\* The steps of the read thread.
ReadThread ==
    \/ AcqWaitStart
    \/ AcqLockArm
    \/ AcqWfpUnlock
    \/ AcqWfpRelock
    \/ \E ok \in BOOLEAN : AcqWaitForPreconditions(ok)
    \/ AcqCapture
    \/ \E ok \in BOOLEAN : \E rate \in RateForDisplayValues :
          AcqCheckSettings(ok, rate)
    \/ AcqOuterTop
    \/ \E ok \in BOOLEAN : AcqStartAcquisition(ok)
    \/ AcqAfterStart
    \/ \E ok \in BOOLEAN : AcqReadBurst(ok)
    \/ AcqCheckDisarm
    \/ \E ok \in BOOLEAN : \E overflow_detected \in BOOLEAN :
          \E num_buffer_bursts \in 1..MaxBufferBursts :
             AcqCheckOverflow(ok, overflow_detected, num_buffer_bursts)
    \/ \E ok \in BOOLEAN : AcqProcessBurstData(ok)
    \/ AcqRestart
    \/ AcqCleanup
    \/ AcqWaitUntilDisarming
    \/ AcqRelock
    \/ AcqStopAcquisition
    \/ AcqFinish

\* The read thread is a thread of its own (TRBaseDriver::readThread loops
\* over readThreadIteration): it takes its next step whenever the event it
\* waits for is signalled and the port lock, which every other thread holds
\* for the length of one handler, is free; every function of the driver it
\* calls returns.
FairSpec == Spec /\ WF_vars(ReadThread)

\* As FairSpec, and the driver's waitForPreconditions returns: it may unlock
\* and relock the port any number of times while it waits, but not for
\* ever.
FairReturnSpec ==
    FairSpec /\ SF_vars(\E ok \in BOOLEAN : AcqWaitForPreconditions(ok))

\* A readBurst that returns after interruptReading was called in the
\* arming.
InterruptedReadBurst ==
    /\ hist.nInterrupt >= 1
    /\ \E ok \in BOOLEAN : AcqReadBurst(ok)

\* The read thread is scheduled as in FairSpec and every function of the
\* driver it calls returns, readBurst excepted: a readBurst may block for
\* ever unless interruptReading has been called, after which it returns.
\* waitForPreconditions returns as in FairReturnSpec.
FairDisarmSpec ==
    /\ Spec
    /\ WF_vars(ReadThread /\ pc # "read_burst")
    /\ WF_vars(InterruptedReadBurst)
    /\ SF_vars(\E ok \in BOOLEAN : AcqWaitForPreconditions(ok))

\* The records as an IOC database sets them before the first arming: a
\* finite number of bursts and sample counts that every arming accepts.
InitDefaults ==
    /\ Init
    /\ desired["NUM_BURSTS"] = MaxBursts
    /\ desired["NUM_POST_SAMPLES"] = 1
    /\ desired["NUM_PRE_POST_SAMPLES"] = 2

\* The same with clients writing desired values and the driver reporting
\* achievable sample rates.
NextParams ==
    \/ Next
    \/ \E p \in ParamNames : \E value \in DesiredValues(p) :
          WriteDesired(p, value)
    \/ \E value \in DesiredValues("ACHIEVABLE_SAMPLE_RATE") :
          DriverSetAchievableSampleRate(value)

SpecParams == InitDefaults /\ [][NextParams]_vars

\* The same with a thread of the driver submitting channel data.
NextSubmit ==
    \/ Next
    \/ SubmitCheck
    \/ SubmitFinish

SpecSubmit == InitDefaults /\ [][NextSubmit]_vars

\* The same with clients writing the other parameters and the driver
\* publishing burst meta-information.
NextWrites ==
    \/ Next
    \/ \E param \in AsynParams \ ClientParams : \E value \in WriteValues :
          WriteParam(param, value)
    \/ \E info \in BurstMetaInfos : publishBurstMetaInfo(info)

SpecWrites == InitDefaults /\ [][NextWrites]_vars

\* The port driver of Spec with a driver whose waitForPreconditions may
\* also return false with the port not locked.
NextLocks ==
    \/ Next
    \/ AcqWaitForPreconditionsUnlocked

SpecLocks == Init /\ [][NextLocks]_vars

\* Numbers of samples a driver may give as custom inputs of the time
\* array.
CustomSamples == {0, 3}

\* The port driver of Spec with a driver that keeps readBurst as the base
\* class defines it.  The positions check_overflow and process, where
\* checkOverflow and processBurstData are called, have no step here: the
\* base class's processBurstData returns false and is not meant to be
\* reached.
NextDefault ==
    \/ \E value \in ArmRequestValues : WriteArmRequest(value)
    \/ requestDisarmingFromDriver
    \/ AcqWaitStart
    \/ AcqLockArm
    \/ AcqWfpUnlock
    \/ AcqWfpRelock
    \/ \E ok \in BOOLEAN : AcqWaitForPreconditions(ok)
    \/ AcqCapture
    \/ \E ok \in BOOLEAN : \E rate \in RateForDisplayValues :
          AcqCheckSettings(ok, rate)
    \/ AcqOuterTop
    \/ \E ok \in BOOLEAN : AcqStartAcquisition(ok)
    \/ AcqAfterStart
    \/ AcqReadBurstDefault
    \/ AcqCheckDisarm
    \/ AcqCleanup
    \/ AcqWaitUntilDisarming
    \/ AcqRelock
    \/ AcqStopAcquisition
    \/ AcqFinish

SpecDefault == Init /\ [][NextDefault]_vars

\* The port driver of Spec with its time array port, and a driver that may
\* fill in the custom inputs of the time array in checkSettings.
NextTimeArray ==
    \/ \E value \in ArmRequestValues : WriteArmRequest(value)
    \/ requestDisarmingFromDriver
    \/ AcqWaitStart
    \/ AcqLockArm
    \/ AcqWfpUnlock
    \/ AcqWfpRelock
    \/ \E ok \in BOOLEAN : AcqWaitForPreconditions(ok)
    \/ AcqCapture
    \/ \E ok \in BOOLEAN : \E rate \in RateForDisplayValues :
          \E custom \in BOOLEAN : \E num_pre, num_post \in CustomSamples :
             /\ ~custom => (num_pre = 0 /\ num_post = 0)
             /\ AcqCheckSettingsArmInfo(ok, rate,
                   [custom_time_array_calc_inputs |-> custom,
                    custom_time_array_num_pre_samples |-> num_pre,
                    custom_time_array_num_post_samples |-> num_post])
    \/ AcqOuterTop
    \/ \E ok \in BOOLEAN : AcqStartAcquisition(ok)
    \/ AcqAfterStart
    \/ \E ok \in BOOLEAN : AcqReadBurst(ok)
    \/ AcqCheckDisarm
    \/ \E ok \in BOOLEAN : \E overflow_detected \in BOOLEAN :
          \E num_buffer_bursts \in 1..MaxBufferBursts :
             AcqCheckOverflow(ok, overflow_detected, num_buffer_bursts)
    \/ \E ok \in BOOLEAN : AcqProcessBurstData(ok)
    \/ AcqRestart
    \/ AcqCleanup
    \/ AcqWaitUntilDisarming
    \/ AcqRelock
    \/ AcqStopAcquisition
    \/ AcqFinish

SpecTimeArray == Init /\ [][NextTimeArray]_vars

\* A worker thread, its tasks and the threads that use them.
NextWorker ==
    \/ \E t \in Tasks : TaskStartLocked(t)
    \/ \E t \in Tasks : TaskStartSignal(t)
    \/ \E t \in Tasks : TaskCancel(t)
    \/ \E t \in Tasks : TaskDestroy(t)
    \/ WorkerThreadStart
    \/ WorkerLock
    \/ WorkerTop
    \/ WorkerTryWait
    \/ WorkerWait
    \/ \E id \in Ids : WorkerCall(id)
    \/ WorkerReturn
    \/ StopSetFlag
    \/ StopSignal
    \/ StopExitWait

\* The port driver stays as constructed: the worker thread is a facility
\* of its own.
InitWorker == InitDefaults /\ ~m_supports_pre_samples

SpecWorker == InitWorker /\ [][NextWorker]_vars

\* The steps of the worker thread once it is started.
WorkerThread ==
    \/ WorkerLock
    \/ WorkerTop
    \/ WorkerTryWait
    \/ WorkerWait
    \/ \E id \in Ids : WorkerCall(id)
    \/ WorkerReturn

\* The steps of the threads that have left the block of start or stop that
\* holds m_mutex: the signal of the event, and in stop the return of
\* exitWait.
Signals ==
    \/ \E t \in Tasks : TaskStartSignal(t)
    \/ StopSignal
    \/ StopExitWait

\* The worker thread is scheduled whenever it can take a step (the mutex is
\* held by any other thread only for the length of one block), every
\* runnable returns, and a thread that has queued a task in start or set
\* m_stop in stop goes on to signal the event; exitWait returns once the
\* thread has left run.
FairSpecWorker == SpecWorker /\ WF_vars(WorkerThread) /\ WF_vars(Signals)

\* ------------------------------------------------------------------------
\* Properties
\* ------------------------------------------------------------------------

\* Every effective value, EFFECTIVE_SAMPLE_RATE included, is the invalid
\* value of its parameter.
AllEffectiveInvalid ==
    /\ effectiveSampleRate = NAN
    /\ \A p \in ParamNames : effective[p] = m_invalid_value[p]

\* The positions of the read thread before setEffectiveParams in an arming.
BeforeSetEffective ==
    {"wait_start", "lock_arm", "wfp", "wfp_wait", "capture", "check_settings"}

\* The positions of the read thread inside a function of the driver that may
\* read snapshot values.
ReadingSnapshot ==
    {"check_settings", "start_acq", "read_burst", "check_overflow", "process",
     "stop_acq"}

\* C1 (as the code has it): every effective value and EFFECTIVE_SAMPLE_RATE
\* is invalid whenever ARM_STATE is Disarm, and whenever the read thread has
\* not yet passed a successful checkSettings of the current arming; between
\* setEffectiveParams and clearEffectiveParams they are set although
\* ARM_STATE is Busy or Error.
C1_EffectiveInvalidOutsideArming ==
    (armStateParam = ArmStateDisarm \/ pc \in BeforeSetEffective)
       => AllEffectiveInvalid

\* C1 witness: an arming that started an acquisition has ended, ARM_STATE is
\* Disarm again and the effective values are invalid again.
C1_Witness ==
    /\ armStateParam = ArmStateDisarm
    /\ hist.nStart >= 1
    /\ hist.nStop = 1
    /\ AllEffectiveInvalid

\* C1 as stated: the effective values are invalid whenever ARM_STATE is
\* Disarm, Busy or Error.
C1_AsStated ==
    armStateParam \notin {ArmStatePostTrigger, ArmStatePrePostTrigger}
       => AllEffectiveInvalid

C3_SnapshotStable ==
    [][(m_snapshot_value' # m_snapshot_value \/ m_irrelevant' # m_irrelevant)
          => pc = "capture"]_vars

\* C3 witness: a desired value was written while the driver was between
\* checkSettings and stopAcquisition, and differs from the snapshot value.
C3_Witness ==
    /\ pc \in {"start_acq", "read_burst", "process", "stop_acq"}
    /\ hist.writes >= 1
    /\ \E p \in ParamNames :
          /\ ~m_irrelevant[p]
          /\ desired[p] # m_snapshot_value[p]

\* The read thread ends an arming with this step: from clearEffectiveParams
\* to unlock().
EndsArming == pc # "wait_start" /\ pc' = "wait_start"

\* The read thread returns from startAcquisition with this step.
CallsStartAcquisition == pc = "start_acq" /\ pc' # "start_acq"

\* C4 (as the code has it): submit hands an array on to the channels port
\* exactly if m_allowing_data was true when submit read it with the port
\* locked; an array whose submit found it false is released.
C4_HandOverAsReadUnderLock ==
    /\ subPc = "decided" => proceed = hist.allowedAtCheck
    /\ hist.submitted => hist.handedOver = hist.allowedAtCheck

\* C4 witness: an array was handed on although a disarm request had set
\* m_allowing_data to false between the locked block and the hand-over.
C4_Witness ==
    /\ hist.submitted
    /\ hist.handedOver
    /\ hist.allowedAtCheck
    /\ ~hist.allowedAtHandOver

\* C4 as stated: m_allowing_data is true at the moment an array is handed
\* on.
C4_AsStated ==
    (hist.submitted /\ hist.handedOver) => hist.allowedAtHandOver

\* C5 (as the code has it): stopAcquisition is called at most once in an
\* arming; an arming in which startAcquisition was called, successfully or
\* not, ends after exactly one stopAcquisition, and an arming in which it
\* was not called ends without one.
C5_StopOnceAfterStart ==
    [][/\ hist'.nStop <= 1
       /\ EndsArming => hist.nStop = (IF hist.nStart >= 1 THEN 1 ELSE 0)]_vars

\* C5 witness: stopAcquisition has returned in an arming that called
\* startAcquisition more than once.
C5_Witness ==
    /\ pc = "finish"
    /\ hist.nStart = Many
    /\ hist.nStop = 1

\* C5 as stated: every arming that entered the overflow-recovery loop, which
\* are the armings whose effective values were set, ends after exactly one
\* stopAcquisition.
C5_AsStated ==
    [][(EndsArming /\ effective["NUM_BURSTS"] # m_invalid_value["NUM_BURSTS"])
          => hist.nStop = 1]_vars

\* C6: interruptReading is called at most once in an arming, and only by a
\* step that is the first disarm request of the arming, made while
\* m_in_read_loop is true.
C6_InterruptOnce ==
    [][/\ hist'.nInterrupt <= 1
       /\ hist'.nInterrupt > hist.nInterrupt
             => /\ ~m_disarm_requested
                /\ m_disarm_requested'
                /\ m_in_read_loop]_vars

\* C6 witness: interruptReading was called once in an arming whose disarm
\* requests ask for a rearming, and the read thread is about to see the
\* request.
C6_Witness ==
    /\ hist.nInterrupt = 1
    /\ m_disarm_requested
    /\ m_requested_rearm_state # ArmStateDisarm
    /\ pc = "check_disarm"

\* C7: in an arming with a snapshot NUM_BURSTS of K > 0 the burst loop never
\* processes more than K bursts and never fails its assertion; when the
\* read thread leaves the loop with every function having succeeded and
\* no disarm requested, processBurstData has been called exactly K times.
C7_BurstCount ==
    LET K == m_snapshot_value["NUM_BURSTS"]
    IN  /\ pc # "assert_failed"
        /\ (pc \in {"read_burst", "check_disarm", "check_overflow", "process"}
               /\ K > 0) => hist.nProcess < K
        /\ (pc = "error" /\ ~had_error /\ ~m_disarm_requested /\ K > 0)
              => (hist.nProcess = K /\ ~hist.failed)

\* C7 witness: the loop was left after MaxBursts bursts in an arming that
\* restarted the acquisition after an overflow.
C7_Witness ==
    /\ pc = "error"
    /\ ~had_error
    /\ ~m_disarm_requested
    /\ hist.nStart = Many
    /\ hist.nProcess = MaxBursts
    /\ m_snapshot_value["NUM_BURSTS"] = MaxBursts

\* C8 (as the code has it): the first startAcquisition of an arming has
\* overflow = false; every later one has overflow = true, is called when the
\* buffered bursts have been processed, and is called without a
\* stopAcquisition before it.
C8_RestartWithoutStop ==
    [][CallsStartAcquisition =>
          IF hist.nStart = 0
          THEN ~overflow
          ELSE overflow /\ currentRemBursts = 0 /\ hist.nStop = 0]_vars

\* C8 witness: bursts are read again after a restart, and stopAcquisition
\* has not been called.
C8_Witness ==
    /\ pc = "read_burst"
    /\ hist.nStart = Many
    /\ hist.nStop = 0
    /\ ~overflow

\* C8 as stated: every startAcquisition of an arming after the first comes
\* after a stopAcquisition.
C8_AsStated ==
    [][(CallsStartAcquisition /\ hist.nStart >= 1) => hist.nStop >= 1]_vars

\* C9 (as the code has it): when an arming requested from Disarm has ended
\* with no disarm request, the values ARM_STATE has had are Disarm, Busy,
\* the requested state, Disarm: no Busy is published while stopping.
C9_ArmStateTrace ==
    (pc = "wait_start" /\ ~m_start_arming_event /\ hist.armStateTrace # <<>>)
       => hist.armStateTrace =
             <<ArmStateDisarm, ArmStateBusy, m_requested_arm_state,
               ArmStateDisarm>>

\* C9 witness: a PostTrigger arming of MaxBursts bursts has run to its end.
C9_Witness ==
    /\ hist.armStateTrace = <<ArmStateDisarm, ArmStateBusy,
                              ArmStatePostTrigger, ArmStateDisarm>>
    /\ hist.nProcess = MaxBursts
    /\ hist.nStop = 1
    /\ ~hist.failed

\* C9 as stated: the values are Disarm, Busy, the requested state, Busy,
\* Disarm.
C9_AsStated ==
    (pc = "wait_start" /\ ~m_start_arming_event /\ hist.armStateTrace # <<>>)
       => hist.armStateTrace =
             <<ArmStateDisarm, ArmStateBusy, m_requested_arm_state,
               ArmStateBusy, ArmStateDisarm>>

\* C10: in an arming in which startAcquisition has not been called,
\* a failure with no disarm requested takes ARM_STATE from Busy to Error;
\* ARM_STATE leaves Error only by the first disarm request, which makes it
\* Busy; once disarming is requested the arming ends, with ARM_STATE Disarm
\* or with the rearming the request asked for, and stopAcquisition is not
\* called in it.
C10_FailureBeforeStart ==
    /\ (m_disarm_requested /\ hist.failed /\ hist.nStart = 0)
          ~> (pc = "wait_start")
    /\ [][hist.nStart = 0 =>
             /\ (pc = "error" /\ pc' # "error" /\ had_error
                    /\ ~m_disarm_requested)
                   => (armStateParam = ArmStateBusy
                          /\ armStateParam' = ArmStateError
                          /\ pc' = "wait_disarm")
             /\ (armStateParam = ArmStateError /\ armStateParam' # ArmStateError)
                   => (~m_disarm_requested /\ m_disarm_requested'
                          /\ armStateParam' = ArmStateBusy)
             /\ armStateParam = ArmStateError => pc = "wait_disarm"
             /\ EndsArming
                   => /\ hist.nStop = 0
                      /\ hist.failed => m_disarm_requested
                      /\ IF m_requested_rearm_state = ArmStateDisarm
                         THEN armStateParam' = ArmStateDisarm
                         ELSE armStateParam' = ArmStateBusy
                                 /\ m_start_arming_event'
                                 /\ m_requested_arm_state'
                                       = m_requested_rearm_state]_vars

\* C10 witness: an arming that failed before startAcquisition has ended
\* after a disarm request, with neither startAcquisition nor stopAcquisition
\* called.
C10_Witness ==
    /\ armStateParam = ArmStateDisarm
    /\ pc = "wait_start"
    /\ hist.failed
    /\ hist.nStart = 0
    /\ hist.nStop = 0

\* ------------------------------------------------------------------------
\* Errors, disarming and rearming
\* ------------------------------------------------------------------------

\* stopAcquisition is called.
CallsStopAcquisition == pc = "stop_acq" /\ pc' = "finish"

\* C11: in an arming in which startAcquisition has been called, a failure
\* of startAcquisition, readBurst, checkOverflow or processBurstData that
\* the cleanup finds with no disarm requested publishes Error; while
\* ARM_STATE is Error the read thread waits and stopAcquisition has not
\* been called; ARM_STATE leaves Error only by the first disarm request;
\* after a failure stopAcquisition is called only once disarming is
\* requested, and then the arming ends, with stopAcquisition called once.
C11_ErrorLatchedUntilDisarm ==
    /\ (m_disarm_requested /\ hist.failed /\ hist.nStart >= 1)
          ~> (pc = "wait_start")
    /\ [][hist.nStart >= 1 =>
             /\ (pc = "error" /\ pc' # "error" /\ had_error
                    /\ ~m_disarm_requested)
                   => (armStateParam' = ArmStateError
                          /\ pc' = "wait_disarm"
                          /\ hist'.nStop = 0)
             /\ armStateParam = ArmStateError
                   => (pc = "wait_disarm" /\ hist.nStop = 0
                          /\ ~m_disarm_requested)
             /\ (armStateParam = ArmStateError /\ armStateParam' # ArmStateError)
                   => (m_disarm_requested' /\ armStateParam' = ArmStateBusy)
             /\ (CallsStopAcquisition /\ hist.failed) => m_disarm_requested
             /\ EndsArming
                   => /\ hist.nStop = 1
                      /\ hist.failed => m_disarm_requested]_vars

\* C11 witness: ARM_STATE is Error after a failure in the read loop, one
\* burst having been processed before; stopAcquisition has not been called.
C11_Witness ==
    /\ armStateParam = ArmStateError
    /\ hist.nStart >= 1
    /\ hist.nProcess >= 1
    /\ hist.nStop = 0
    /\ ~m_disarm_requested

\* C12: a disarm request that arrives while the read thread is in
\* readBurst in the read loop calls interruptReading in the requesting
\* handler, which holds the port lock; when readBurst has returned true the
\* read thread goes to the cleanup with no error, without checkOverflow or
\* processBurstData for that burst; the cleanup goes straight on to
\* stopAcquisition; and the arming ends.
C12_DisarmDuringReadBurst ==
    /\ (pc = "read_burst" /\ m_disarm_requested) ~> (pc = "wait_start")
    /\ [][/\ pc \in {"read_burst", "check_disarm"}
                => (m_in_read_loop /\ need_stop_acquisition)
          /\ (pc = "read_burst" /\ ~m_disarm_requested /\ m_disarm_requested')
                => (pc' = pc /\ portLock = "free" /\ portLock' = "free"
                       /\ hist.nInterrupt = 0 /\ hist'.nInterrupt = 1)
          /\ (pc = "check_disarm" /\ m_disarm_requested /\ pc' # pc)
                => (pc' = "error" /\ ~had_error'
                       /\ hist'.nProcess = hist.nProcess)
          /\ (pc = "error" /\ ~had_error /\ need_stop_acquisition
                 /\ pc' # pc)
                => (pc' = "stop_acq" /\ hist'.nProcess = hist.nProcess
                       /\ ~m_allowing_data')]_vars

\* C12 witness: stopAcquisition is about to be called in an arming that was
\* interrupted while its first burst was being read; the burst has been
\* read and is not processed.
C12_Witness ==
    /\ pc = "stop_acq"
    /\ m_disarm_requested
    /\ hist.nInterrupt = 1
    /\ hist.nProcess = 0
    /\ ~had_error
    /\ ~hist.failed

\* A step of a handler that runs with the port locked (a write of
\* ARM_REQUEST or requestDisarmingFromDriver): the read thread stays where
\* it is.
HandlerStep == pc' = pc

\* C13: a write of PostTrigger or PrePostTrigger while ARM_STATE is not
\* Disarm requests disarming with the written value as the rearm target;
\* as long as that target is pending (no later request replaces it)
\* ARM_STATE is Busy; the arming ends, with stopAcquisition called once if
\* startAcquisition was called and not otherwise; at its end the new
\* arming is started with the target and ARM_STATE stays Busy; and ARM_STATE
\* goes from Busy to Disarm only at the end of an arming whose disarming
\* was requested with no rearm target pending.
C13_RearmWithoutDisarm ==
    /\ (m_requested_rearm_state # ArmStateDisarm) ~> (pc = "wait_start")
    /\ [][/\ (HandlerStep /\ armRequestParam' # armRequestParam
                 /\ armRequestParam' \in {ArmStatePostTrigger,
                                          ArmStatePrePostTrigger}
                 /\ armStateParam # ArmStateDisarm)
                => (m_requested_rearm_state' = armRequestParam'
                       /\ m_disarm_requested'
                       /\ armStateParam' = ArmStateBusy)
          /\ m_requested_rearm_state # ArmStateDisarm
                => (armStateParam = ArmStateBusy /\ m_disarm_requested)
          /\ (m_requested_rearm_state' # m_requested_rearm_state
                 /\ ~EndsArming)
                => HandlerStep
          /\ (EndsArming /\ m_requested_rearm_state # ArmStateDisarm)
                => (armStateParam' = ArmStateBusy
                       /\ m_requested_arm_state' = m_requested_rearm_state
                       /\ m_requested_rearm_state' = ArmStateDisarm
                       /\ m_start_arming_event'
                       /\ ~m_disarm_requested'
                       /\ hist.nStop = (IF hist.nStart >= 1 THEN 1 ELSE 0))
          /\ (armStateParam = ArmStateBusy /\ armStateParam' = ArmStateDisarm)
                => (EndsArming /\ m_disarm_requested
                       /\ m_requested_rearm_state = ArmStateDisarm)]_vars

\* C13 witness: an arming started by a rearm request (no Disarm and no Busy
\* was published for it at its start) has reached its armed state
\* PrePostTrigger.
C13_Witness ==
    /\ armStateParam = ArmStatePrePostTrigger
    /\ m_requested_arm_state = ArmStatePrePostTrigger
    /\ ~m_disarm_requested
    /\ hist.armStateTrace = <<>>
    /\ pc = "read_burst"

\* The values of ARM_REQUEST that handleArmRequest accepts.
AcceptedArmRequests ==
    {ArmStateDisarm, ArmStatePostTrigger, ArmStatePrePostTrigger}

\* C14: from the first disarm request of an arming to the end of its
\* cleanup, a further request changes nothing but the pending rearm target
\* (no interruptReading, no event signal, no change of the arm state or of
\* a flag): an accepted write of ARM_REQUEST makes the written value the
\* target, a rejected write leaves the target, requestDisarmingFromDriver
\* makes it Disarm; and the cleanup acts on the target it finds: Disarm is
\* published, or the arming with the target is started.
C14_LastRequestWins ==
    [][/\ (m_disarm_requested /\ m_arm_state # ArmStateDisarm /\ HandlerStep)
             => /\ UNCHANGED <<m_disarm_requested, m_allowing_data,
                               m_arm_state, armStateParam,
                               m_requested_arm_state, m_in_read_loop,
                               m_start_arming_event,
                               m_disarm_requested_event, hist>>
                /\ IF armRequestParam' # armRequestParam
                   THEN m_requested_rearm_state' =
                           IF armRequestParam' \in AcceptedArmRequests
                           THEN armRequestParam'
                           ELSE m_requested_rearm_state
                   ELSE m_requested_rearm_state' \in
                           {ArmStateDisarm} \cup
                           (IF armRequestParam' \in AcceptedArmRequests
                            THEN {armRequestParam'}
                            ELSE {m_requested_rearm_state})
       /\ (m_disarm_requested /\ m_arm_state # ArmStateDisarm
              /\ m_requested_rearm_state' # m_requested_rearm_state)
             => (HandlerStep \/ EndsArming)
       /\ (m_disarm_requested /\ EndsArming)
             => IF m_requested_rearm_state = ArmStateDisarm
                THEN armStateParam' = ArmStateDisarm
                        /\ UNCHANGED m_start_arming_event
                ELSE armStateParam' = ArmStateBusy
                        /\ m_requested_arm_state' = m_requested_rearm_state
                        /\ m_start_arming_event']_vars

\* C14 witness: in an arming requested with PrePostTrigger a write of
\* PostTrigger (still the value of ARM_REQUEST) was followed by a disarm
\* request of the driver: disarming is under way and the pending target is
\* Disarm.
C14_Witness ==
    /\ m_disarm_requested
    /\ armStateParam = ArmStateBusy
    /\ m_requested_arm_state = ArmStatePrePostTrigger
    /\ armRequestParam = ArmStatePostTrigger
    /\ m_requested_rearm_state = ArmStateDisarm

\* C14 as stated: while disarming is under way the pending target is the
\* value of the last accepted write of ARM_REQUEST (which is the value of
\* the parameter whenever that value is one handleArmRequest accepts).
C14_AsStated ==
    (m_disarm_requested /\ m_arm_state # ArmStateDisarm
        /\ armRequestParam \in AcceptedArmRequests)
       => m_requested_rearm_state = armRequestParam

\* C15: a write of Disarm to ARM_REQUEST while ARM_STATE is Disarm changes
\* nothing but the ARM_REQUEST parameter: ARM_STATE and m_arm_state stay
\* Disarm, no event is signalled, no flag changes, the read thread stays
\* where it is and no function of the driver is called.
C15_DisarmInDisarmNoOp ==
    [][(armStateParam = ArmStateDisarm /\ HandlerStep
           /\ armRequestParam' = ArmStateDisarm)
          => UNCHANGED <<portLock, m_supports_pre_samples, threadVars,
                         flagVars, paramVars, submitVars, writeVars,
                         hist>>]_vars

\* C15 witness: an arming requested with PostTrigger ran to its natural
\* end with no disarm request, and Disarm has been written since: ARM_REQUEST
\* is Disarm, and the record of the arming is as the arming left it.
C15_Witness ==
    /\ armStateParam = ArmStateDisarm
    /\ m_arm_state = ArmStateDisarm
    /\ armRequestParam = ArmStateDisarm
    /\ pc = "wait_start"
    /\ ~m_start_arming_event
    /\ ~m_disarm_requested
    /\ hist.armStateTrace = <<ArmStateDisarm, ArmStateBusy,
                              ArmStatePostTrigger, ArmStateDisarm>>

\* ------------------------------------------------------------------------
\* Rejected writes
\* ------------------------------------------------------------------------

\* The parameters the documentation of the framework names as
\* write-protected, by their asyn names.
ProtectedAsDocumented ==
    {"ARM_STATE", "EFFECTIVE_SAMPLE_RATE", "BURST_ID", "BURST_TIME_BURST",
     "BURST_TIME_READ", "BURST_TIME_PROCESS", "EFFECTIVE_NUM_BURSTS",
     "EFFECTIVE_NUM_POST_SAMPLES", "EFFECTIVE_NUM_PRE_POST_SAMPLES",
     "EFFECTIVE_REQUESTED_SAMPLE_RATE", "EFFECTIVE_ACHIEVABLE_SAMPLE_RATE",
     "DESIRED_ACHIEVABLE_SAMPLE_RATE"}

\* C16: the write gate rejects exactly the writes to ARM_STATE,
\* EFFECTIVE_SAMPLE_RATE, BURST_ID, BURST_TIME_BURST, BURST_TIME_READ,
\* BURST_TIME_PROCESS, every EFFECTIVE_<name> and the DESIRED_<name> of the
\* internal parameter ACHIEVABLE_SAMPLE_RATE; a write to one of them, in
\* whatever state, returns asynError and changes neither a parameter nor
\* the arm state nor anything else; a write to another parameter that
\* comes to the gate returns asynSuccess.
C16_ProtectedWritesRejected ==
    [][/\ \A param \in AsynParams :
             checkProtectedParamWrite(param)
                <=> param \notin ProtectedAsDocumented
       /\ \/ /\ lastWriteStatus' = "asynError"
             /\ UNCHANGED <<pc, portLock, armRequestParam, threadVars,
                            flagVars, paramVars, submitVars, baseParams,
                            hist>>
          \/ \A param \in AsynParams \ ClientParams :
                \A value \in WriteValues :
                   WriteParam(param, value)
                      => (param \notin ProtectedAsDocumented
                             /\ lastWriteStatus' = "asynSuccess")]_vars

\* C16 witness: the last write that came to the gate was rejected, no
\* write has been let through, and the PostTrigger arming goes on: its
\* first burst has been read and published and is about to be processed.
C16_Witness ==
    /\ lastWriteStatus = "asynError"
    /\ baseParams["SLEEP_AFTER_BURST"] = 0
    /\ armStateParam = ArmStatePostTrigger
    /\ pc = "process"
    /\ hist.nProcess = 0
    /\ baseParams["BURST_ID"] = 1

\* C17: a write to ARM_REQUEST of a value other than Disarm, PostTrigger
\* and PrePostTrigger returns asynError and is possible whenever the port
\* lock is free; it stores the written value in the ARM_REQUEST parameter
\* and changes nothing else: ARM_STATE, the flags, the events, the other
\* parameters and the read thread are as before.
C17_InvalidArmRequestStored ==
    /\ [](portLock = "free"
            => \A value \in ArmRequestValues \ AcceptedArmRequests :
                  /\ handleArmRequestStatus(value) = "asynError"
                  /\ ENABLED (WriteArmRequest(value)
                                 /\ armRequestParam' = value))
    /\ [][\A value \in ArmRequestValues \ AcceptedArmRequests :
             WriteArmRequest(value)
                => /\ armRequestParam' = value
                   /\ UNCHANGED <<portLock, m_supports_pre_samples,
                                  threadVars, flagVars, paramVars,
                                  submitVars, writeVars, hist>>]_vars

\* C17 witness: the value Busy, which is not accepted, has been written
\* during a PostTrigger arming and is the value of ARM_REQUEST; the arming
\* goes on as if nothing had been written.
C17_Witness ==
    /\ armRequestParam = ArmStateBusy
    /\ armStateParam = ArmStatePostTrigger
    /\ ~m_disarm_requested
    /\ m_allowing_data
    /\ pc = "read_burst"
    /\ hist.armStateTrace = <<ArmStateDisarm, ArmStateBusy,
                              ArmStatePostTrigger>>

\* C17 as stated: the ARM_REQUEST parameter never holds a value other than
\* Disarm, PostTrigger and PrePostTrigger, since a write of another value
\* leaves it at the value it had.
C17_AsStated == armRequestParam \in AcceptedArmRequests

\* ------------------------------------------------------------------------
\* Effective values at the end of an arming and after a disarm request
\* ------------------------------------------------------------------------

\* C18: the step that ends an arming leaves every effective value and
\* EFFECTIVE_SAMPLE_RATE invalid, whether it publishes Disarm or starts the
\* pending rearming; no step publishes Disarm with an effective value set;
\* so whenever ARM_STATE is Disarm every effective value is invalid.
C18_ResetBeforeDisarm ==
    /\ [](armStateParam = ArmStateDisarm
            => (effectiveSampleRate = NAN
                   /\ \A p \in ParamNames : effective[p] = m_invalid_value[p]))
    /\ [][/\ EndsArming => AllEffectiveInvalid'
          /\ (armStateParam # ArmStateDisarm
                 /\ armStateParam' = ArmStateDisarm)
                => (EndsArming /\ AllEffectiveInvalid')]_vars

\* C18 witness: an arming whose effective values were set (startAcquisition
\* was called in it) has ended: ARM_STATE is Disarm again and the effective
\* values are invalid.
C18_Witness ==
    /\ armStateParam = ArmStateDisarm
    /\ pc = "wait_start"
    /\ hist.nStart >= 1
    /\ hist.nStop = 1
    /\ AllEffectiveInvalid

\* C19: a successful checkSettings is followed by setEffectiveParams
\* whether or not disarming has been requested: each effective value
\* becomes the snapshot value (the invalid value if the parameter is
\* irrelevant) and EFFECTIVE_SAMPLE_RATE the display rate.  Once disarming
\* is requested this is the only update of the effective values besides
\* the reset at the end of the arming; while they are set after a disarm
\* request ARM_STATE is Busy; and an arming whose disarming was requested
\* by then leaves the overflow-recovery loop at once, without
\* startAcquisition.
C19_EffectiveSetOnceUnderDisarm ==
    [][/\ (pc = "check_settings" /\ pc' = "outer")
             => /\ effectiveSampleRate' # NAN
                /\ \A p \in ParamNames :
                      effective'[p] = IF m_irrelevant[p]
                                      THEN m_invalid_value[p]
                                      ELSE m_snapshot_value[p]
       /\ (m_disarm_requested
              /\ (effective' # effective
                     \/ effectiveSampleRate' # effectiveSampleRate))
             => \/ pc = "check_settings" /\ pc' = "outer"
                \/ EndsArming /\ AllEffectiveInvalid'
       /\ (m_disarm_requested /\ ~AllEffectiveInvalid)
             => armStateParam = ArmStateBusy
       /\ (m_disarm_requested /\ pc = "outer" /\ pc' # pc)
             => (pc' = "error" /\ ~had_error'
                    /\ hist'.nStart = hist.nStart)]_vars

\* C19 witness: disarming was requested before checkSettings returned, and
\* the effective values have been set all the same: the read thread is at
\* the top of the overflow-recovery loop of an arming that has not started
\* the acquisition.
C19_Witness ==
    /\ m_disarm_requested
    /\ pc = "outer"
    /\ hist.nStart = 0
    /\ effective["NUM_BURSTS"] = m_snapshot_value["NUM_BURSTS"]
    /\ effective["NUM_BURSTS"] # m_invalid_value["NUM_BURSTS"]
    /\ effectiveSampleRate # NAN

\* C19 as stated: once disarming is requested no effective value is
\* changed to anything but its invalid value.
C19_AsStated ==
    [][m_disarm_requested
          => \A p \in ParamNames :
                effective'[p] # effective[p]
                   => effective'[p] = m_invalid_value[p]]_vars

\* C20: requestDisarmingFromDriver called while ARM_STATE is Disarm changes
\* nothing; in any other state it sets m_disarm_requested, clears
\* m_allowing_data, publishes Busy, signals the event, calls
\* interruptReading if it is the first request and the read thread is in
\* the read loop, and makes Disarm the pending rearm target; in every state
\* it leaves the flags, the events, ARM_STATE and the calls made exactly as
\* a write of Disarm to ARM_REQUEST in that state does, and conversely;
\* the write stores its value in the ARM_REQUEST parameter besides.
C20_DriverDisarmAsWrite ==
    [][/\ (requestDisarmingFromDriver /\ armStateParam = ArmStateDisarm)
             => UNCHANGED vars
       /\ (requestDisarmingFromDriver /\ armStateParam # ArmStateDisarm)
             => /\ m_disarm_requested'
                /\ ~m_allowing_data'
                /\ armStateParam' = ArmStateBusy
                /\ m_disarm_requested_event'
                /\ m_requested_rearm_state' = ArmStateDisarm
                /\ hist'.nInterrupt =
                      IF ~m_disarm_requested /\ m_in_read_loop
                      THEN hist.nInterrupt + 1
                      ELSE hist.nInterrupt
       /\ requestDisarmingFromDriver
             => /\ handleArmRequest(ArmStateDisarm)
                /\ UNCHANGED <<portLock, m_supports_pre_samples, threadVars,
                               paramVars, submitVars, writeVars>>
       /\ WriteArmRequest(ArmStateDisarm)
             => /\ armRequestParam' = ArmStateDisarm
                /\ IF m_arm_state # ArmStateDisarm
                   THEN requestDisarming(ArmStateDisarm)
                   ELSE UNCHANGED <<flagVars, hist>>
       /\ (WriteArmRequest(ArmStateDisarm) /\ UNCHANGED armRequestParam)
             => requestDisarmingFromDriver]_vars

\* C20 witness: during a PostTrigger arming, with the read thread in the
\* read loop, the driver has requested disarming (ARM_REQUEST still holds
\* the PostTrigger of the arm request): interruptReading has been called,
\* ARM_STATE is Busy and the pending target is Disarm.
C20_Witness ==
    /\ m_disarm_requested
    /\ ~m_allowing_data
    /\ m_disarm_requested_event
    /\ armStateParam = ArmStateBusy
    /\ m_requested_arm_state = ArmStatePostTrigger
    /\ armRequestParam = ArmStatePostTrigger
    /\ m_requested_rearm_state = ArmStateDisarm
    /\ hist.nInterrupt = 1

\* ------------------------------------------------------------------------
\* Basic settings and the snapshot of the sample counts
\* ------------------------------------------------------------------------

\* The condition on which the basic settings are to be rejected, for the
\* snapshot snap of an arming requested as m_requested_arm_state.
BasicSettingsInvalid(snap) ==
    \/ snap["NUM_BURSTS"] < 0
    \/ snap["NUM_POST_SAMPLES"] <= 0
    \/ /\ m_requested_arm_state = ArmStatePrePostTrigger
       /\ \/ ~m_supports_pre_samples
          \/ snap["NUM_PRE_POST_SAMPLES"] <= snap["NUM_POST_SAMPLES"]

\* The read thread is past the capture of the current arming, or in the
\* cleanup after a failed waitForPreconditions, and has not ended the arming.
PastCaptureOrFailed == pc \notin {"wait_start", "lock_arm", "wfp", "wfp_wait", "capture"}

\* C21: the step that takes the snapshot and checks the basic settings goes
\* to the cleanup as a failure, with the port unlocked, exactly when the
\* snapshot has NUM_BURSTS < 0, or NUM_POST_SAMPLES <= 0, or the requested
\* state is PrePostTrigger and pre-samples are not supported or
\* NUM_PRE_POST_SAMPLES <= NUM_POST_SAMPLES; otherwise it goes on to
\* checkSettings with the port locked.  An arming so rejected never reaches
\* checkSettings, startAcquisition or stopAcquisition, and its cleanup
\* publishes Error unless disarming was requested by then.
C21_BasicSettingsRejection ==
    /\ [](PastCaptureOrFailed /\ BasicSettingsInvalid(m_snapshot_value)
             => /\ pc \in {"error", "wait_disarm", "relock"}
                /\ hist.failed
                /\ hist.nStart = 0
                /\ hist.nStop = 0
                /\ ~need_stop_acquisition)
    /\ [][/\ pc = "capture" /\ pc' # "capture"
               => /\ m_snapshot_value'["NUM_BURSTS"] = desired["NUM_BURSTS"]
                  /\ m_snapshot_value'["NUM_POST_SAMPLES"]
                        = desired["NUM_POST_SAMPLES"]
                  /\ IF BasicSettingsInvalid(desired)
                     THEN /\ pc' = "error"
                          /\ portLock' = "free"
                          /\ had_error'
                          /\ m_snapshot_value' = desired
                          /\ BasicSettingsInvalid(m_snapshot_value')
                     ELSE /\ pc' = "check_settings"
                          /\ portLock' = "acq"
                          /\ ~BasicSettingsInvalid(m_snapshot_value')
          /\ (pc = "error" /\ pc' # "error"
                 /\ BasicSettingsInvalid(m_snapshot_value)
                 /\ hist.nStart = 0)
               => IF m_disarm_requested
                  THEN armStateParam' # ArmStateError
                  ELSE armStateParam = ArmStateBusy
                          /\ armStateParam' = ArmStateError]_vars

\* C21 witness: a PrePostTrigger arming of an adapter that supports
\* pre-samples, with valid NUM_BURSTS and NUM_POST_SAMPLES, was rejected for
\* NUM_PRE_POST_SAMPLES = NUM_POST_SAMPLES and ARM_STATE is Error.
C21_Witness ==
    /\ armStateParam = ArmStateError
    /\ m_requested_arm_state = ArmStatePrePostTrigger
    /\ m_supports_pre_samples
    /\ m_snapshot_value["NUM_BURSTS"] >= 0
    /\ m_snapshot_value["NUM_POST_SAMPLES"] > 0
    /\ m_snapshot_value["NUM_PRE_POST_SAMPLES"]
          = m_snapshot_value["NUM_POST_SAMPLES"]
    /\ hist.nStart = 0

\* The snapshot of the current arming has been taken and accepted: the read
\* thread is in checkSettings, or past a successful checkSettings (the
\* effective sample rate is set from there to the end of the arming).
SnapshotAccepted ==
    \/ pc \in {"check_settings", "outer", "start_acq", "after_start",
               "read_burst", "check_disarm", "check_overflow", "process",
               "restart", "stop_acq", "finish"}
    \/ pc \in {"error", "wait_disarm", "relock"} /\ effectiveSampleRate # NAN

getNumPostSamplesSnapshot == m_snapshot_value["NUM_POST_SAMPLES"]

getNumPrePostSamplesSnapshot == m_snapshot_value["NUM_PRE_POST_SAMPLES"]

\* C23 (as stated): whenever the read thread is in a function of the driver
\* that may read snapshot values, from checkSettings to stopAcquisition,
\* getNumPrePostSamplesSnapshot() is positive and greater than or equal to
\* getNumPostSamplesSnapshot().
C23_AsStated ==
    pc \in ReadingSnapshot
       => /\ getNumPrePostSamplesSnapshot > 0
          /\ getNumPrePostSamplesSnapshot >= getNumPostSamplesSnapshot

\* ------------------------------------------------------------------------
\* The unlimited read loop
\* ------------------------------------------------------------------------

\* The current arming has the snapshot NUM_BURSTS = 0.
UnlimitedArming == SnapshotAccepted /\ m_snapshot_value["NUM_BURSTS"] = 0

\* The positions of the read thread in the overflow-recovery loop.
InOuterLoop ==
    {"outer", "start_acq", "after_start", "read_burst", "check_disarm",
     "check_overflow", "process", "restart"}

\* C24: in an arming with the snapshot NUM_BURSTS = 0 remainingBursts is -1
\* all through the overflow-recovery loop and currentRemBursts is not 0
\* inside the burst loop; the read thread goes to the cleanup only by a
\* failure or with disarming requested; ARM_STATE, once it is the armed
\* state, changes only by a disarm request or to Error after a failure; the
\* arming ends only with disarming requested; and as long as no function
\* of the driver fails and no disarming is requested, every readBurst is
\* followed by processBurstData and every processBurstData by another
\* readBurst, through any overflow recovery.
C24_UnlimitedNeverStops ==
    /\ (UnlimitedArming /\ pc = "read_burst")
          ~> (pc = "process" \/ hist.failed \/ m_disarm_requested)
    /\ (UnlimitedArming /\ pc = "process")
          ~> (pc = "read_burst" \/ hist.failed \/ m_disarm_requested)
    /\ [](UnlimitedArming /\ pc \in InOuterLoop
             => /\ remainingBursts = -1
                /\ pc \in {"read_burst", "check_disarm", "check_overflow",
                           "process"} => currentRemBursts # 0)
    /\ [][UnlimitedArming
             => /\ (pc # "error" /\ pc' = "error")
                   => (m_disarm_requested \/ (had_error' /\ hist'.failed))
                /\ (armStateParam \in {ArmStatePostTrigger,
                                       ArmStatePrePostTrigger}
                       /\ armStateParam' # armStateParam)
                   => \/ ~m_disarm_requested /\ m_disarm_requested'
                      \/ armStateParam' = ArmStateError /\ hist.failed
                /\ EndsArming => m_disarm_requested]_vars

\* C24 witness: armed with the snapshot NUM_BURSTS = 0, the read thread is
\* in readBurst again after more processed bursts than any finite setting
\* of the model allows and after a restart for an overflow, with no failure
\* and no disarm request.
C24_Witness ==
    /\ UnlimitedArming
    /\ pc = "read_burst"
    /\ armStateParam = m_requested_arm_state
    /\ hist.nProcess > MaxBursts
    /\ hist.nStart = Many
    /\ ~hist.failed
    /\ ~m_disarm_requested
    /\ currentRemBursts = -1

\* ------------------------------------------------------------------------
\* The port lock and the read thread
\* ------------------------------------------------------------------------

\* The positions at which the read thread is inside a function of the
\* driver that is called with the port locked, or between two of them.
CalledLocked == {"wfp", "capture", "check_settings", "outer"}

\* The positions at which the read thread is inside a function of the
\* driver that is called with the port unlocked.
CalledUnlocked ==
    {"start_acq", "read_burst", "check_overflow", "process", "stop_acq"}

\* The positions at which the read thread waits for m_start_arming_event or
\* m_disarm_requested_event.
WaitingForEvent == {"wait_start", "wait_disarm"}

\* C25: on every path of the arming sequence, that of a waitForPreconditions
\* returning false with the port not locked included, the read thread holds
\* the port lock while it is in waitForPreconditions (other than where the
\* driver itself has unlocked to wait) and in checkSettings; it does not
\* hold it while it is in startAcquisition, readBurst, checkOverflow,
\* processBurstData or stopAcquisition, nor while it waits for
\* m_start_arming_event or m_disarm_requested_event; and interruptReading is
\* called only inside a handler, which runs with the port lock taken by its
\* caller, never by the read thread.
C25_LockDiscipline ==
    /\ [](/\ pc \in CalledLocked => portLock = "acq"
          /\ pc \in CalledUnlocked \cup WaitingForEvent => portLock = "free")
    /\ [][hist'.nInterrupt > hist.nInterrupt
             => /\ HandlerStep
                /\ portLock = "free" /\ portLock' = "free"
                /\ m_in_read_loop
                /\ pc \notin CalledLocked]_vars

\* C25 witness: interruptReading has been called while the read thread was
\* in readBurst, which it entered without the port lock after one restart
\* for an overflow.
C25_Witness ==
    /\ pc = "read_burst"
    /\ portLock = "free"
    /\ hist.nInterrupt = 1
    /\ hist.nStart = Many
    /\ m_disarm_requested

\* C26 (as stated): when waitForPreconditions returns false with the port
\* not locked, the read thread calls no unlock() for a port lock it does
\* not hold.
C26_AsStated == ~hist.unlockNotHeld

\* ------------------------------------------------------------------------
\* The worker thread and its queue
\* ------------------------------------------------------------------------

\* The number of places the task t has in the queue.
Places(t) == Cardinality({i \in 1..Len(m_queue) : m_queue[i] = t})

\* The worker thread has taken the task t from the queue and its runnable
\* has not returned.
Executing(t) == workerPc \in {"run", "running"} /\ task = t

\* C27: in every reachable state each task has at most one place in the
\* queue; a start of a task that is queued returns false and leaves the
\* queue, the event and the calling thread as they are; a start of a task
\* that is not queued appends it at the back of the queue, signals the event
\* and returns true; a task that the worker thread has just taken from the
\* queue is not queued, and a start of it while it is executed and not
\* queued queues it again.
C27_AtMostOnceQueued ==
    /\ [](\A t \in Tasks : Places(t) <= 1)
    /\ [][\A t \in Tasks :
             /\ (TaskStartLocked(t) /\ Queued(t))
                   => /\ lastReturn' = [op |-> "start", value |-> FALSE]
                      /\ UNCHANGED <<m_queue, m_event, startPc, m_stop>>
             /\ (TaskStartLocked(t) /\ ~Queued(t))
                   => /\ m_queue' = Append(m_queue, t)
                      /\ startPc'[t] = "signal"
             /\ (startPc[t] = "idle" /\ startPc'[t] = "signal")
                   => ~Queued(t) /\ m_queue' = Append(m_queue, t)
             /\ (startPc[t] = "signal" /\ startPc'[t] = "idle")
                   => /\ lastReturn' = [op |-> "start", value |-> TRUE]
                      /\ m_event'
             /\ (workerPc = "top" /\ workerPc' = "run" /\ task' = t)
                   => ~Queued(t)'
             /\ (Executing(t) /\ ~Queued(t) /\ TaskStartLocked(t))
                   => Queued(t)' /\ Executing(t)']_vars

\* C27 witness: task 1 is queued again while its runnable is running, and
\* the start that queued it has returned true.
C27_Witness ==
    /\ workerPc = "running"
    /\ task = 1
    /\ m_queue = <<1>>
    /\ startPc[1] = "idle"
    /\ lastReturn = [op |-> "start", value |-> TRUE]
    /\ whist.nStarts = 2

\* C28: cancel returns whether the task was queued when it looked, and
\* leaves the task out of the queue and the worker thread where it is; the
\* destructor of a task has the same effect on the queue; a ticket erased
\* by either is never taken from the queue and never given to a runnable;
\* and both can be called, and return, while the worker thread executes the
\* task, which then goes on.
C28_CancelRemovesQueued ==
    /\ [](/\ whist.calledTickets \cap whist.cancelledTickets = {}
          /\ whist.runTicket \notin whist.cancelledTickets
          /\ \A t \in Tasks :
                (Executing(t) /\ t \notin destroyed)
                   => /\ ENABLED TaskCancel(t)
                      /\ startPc[t] = "idle" => ENABLED TaskDestroy(t))
    /\ [][\A t \in Tasks :
             /\ TaskCancel(t)
                   => /\ lastReturn' = [op |-> "cancel", value |-> Queued(t)]
                      /\ ~Queued(t)'
                      /\ m_queue' = erase(m_queue, t)
                      /\ Queued(t)
                            => whist.ticket[t] \in whist'.cancelledTickets
                      /\ UNCHANGED <<workerPc, task, m_event, m_stop>>
             /\ TaskDestroy(t)
                   => /\ ~Queued(t)'
                      /\ m_queue' = erase(m_queue, t)
                      /\ Queued(t)
                            => whist.ticket[t] \in whist'.cancelledTickets
                      /\ UNCHANGED <<workerPc, task, m_event, m_stop,
                                     lastReturn>>
             /\ (Queued(t) /\ ~Queued(t)')
                   => \/ lastReturn' = [op |-> "cancel", value |-> TRUE]
                      \/ t \in destroyed' \ destroyed
                      \/ workerPc = "top" /\ workerPc' = "run" /\ task' = t]_vars

\* C28 witness: task 2 was queued behind task 1 and cancelled while the
\* worker thread was executing task 1; cancel returned true, and the worker
\* thread waits with an empty queue, having called task 1 only.
C28_Witness ==
    /\ lastReturn = [op |-> "cancel", value |-> TRUE]
    /\ whist.cancelledTickets = {2}
    /\ whist.calledTickets = {1}
    /\ whist.nStarts = 2
    /\ whist.lastId = IdGiven(1)
    /\ m_queue = <<>>
    /\ workerPc = "wait"

\* The worker thread takes a task from the queue.
Dequeues == workerPc = "top" /\ workerPc' = "run"

\* runWorkerThreadTask is called.
CallsRunnable == workerPc = "run" /\ workerPc' = "running"

\* C29: the queue holds the tasks in the order in which start queued them;
\* the worker thread takes the task queued the longest, so runnables are
\* called in the order of the queueing starts, without the erased ones;
\* each call has the id given to the task at construction (for a task not
\* destroyed meanwhile) and is the only call for that start; the next task
\* is taken only after the runnable has returned; and the worker thread
\* does not hold m_mutex while the runnable executes.
C29_FifoOneAtATime ==
    /\ [](/\ \A i \in 1..Len(m_queue) : \A j \in 1..Len(m_queue) :
                i < j => /\ whist.ticket[m_queue[i]] > 0
                         /\ whist.ticket[m_queue[i]] < whist.ticket[m_queue[j]]
          /\ workerPc \in {"run", "running"}
                => m_mutex = "free" /\ task \in Tasks
          /\ \A k \in whist.calledTickets : k <= whist.runTicket)
    /\ [][/\ Dequeues
               => /\ task' = Head(m_queue)
                  /\ whist'.runTicket = whist.ticket[task']
                  /\ whist'.runTicket > whist.runTicket
                  /\ whist.runTicket \in whist.calledTickets \cup {0}
                  /\ \A u \in Tasks :
                        Queued(u) => whist.ticket[u] >= whist'.runTicket
          /\ CallsRunnable
               => /\ whist.runTicket \notin whist.calledTickets
                  /\ whist'.calledTickets
                        = whist.calledTickets \cup {whist.runTicket}
                  /\ task \notin destroyed => whist'.lastId = IdGiven(task)
          /\ ~CallsRunnable => whist'.calledTickets = whist.calledTickets]_vars

\* C29 witness: the runnable of task 1 runs with the id given to task 1
\* while task 2 and then task 1 again have been queued behind it.
C29_Witness ==
    /\ workerPc = "running"
    /\ task = 1
    /\ whist.lastId = IdGiven(1)
    /\ whist.runTicket = 1
    /\ m_queue = <<2, 1>>
    /\ whist.ticket[2] = 2
    /\ destroyed = {}

\* The ticket k is that of a task in the queue.
Pending(k) == \E t \in Tasks : Queued(t) /\ whist.ticket[t] = k

\* C30: once the worker thread is started, every task that a start has
\* queued is in the end given to its runnable, unless it is erased by
\* cancel or by its destructor or stop has set m_stop; whenever the worker
\* thread waits with the event not signalled while a task is queued or
\* m_stop is set, a thread is on its way to signal the event; the worker
\* thread goes to wait only with the queue empty; and every ticket a start
\* has given is in exactly one place: in the queue, taken from it and about
\* to be called, called, or erased, so that no start is executed twice.
C30_NoLostWakeup ==
    /\ \A k \in 1..MaxStarts :
          (Pending(k) /\ workerPc # "created")
             ~> (k \in whist.calledTickets \/ k \in whist.cancelledTickets
                    \/ m_stop)
    /\ [](/\ (workerPc = "wait" /\ ~m_event /\ (m_queue # <<>> \/ m_stop))
                => \/ \E t \in Tasks : startPc[t] = "signal"
                   \/ stopPc = "signal"
          /\ workerPc = "try_wait" => m_queue = <<>> /\ m_mutex = "worker"
          /\ \A k \in 1..MaxStarts :
                IF k <= whist.nStarts
                THEN Cardinality(
                        {place \in {"queued", "taken", "called", "erased"} :
                            \/ place = "queued" /\ Pending(k)
                            \/ place = "taken" /\ workerPc = "run"
                                  /\ whist.runTicket = k
                            \/ place = "called" /\ k \in whist.calledTickets
                            \/ place = "erased"
                                  /\ k \in whist.cancelledTickets}) = 1
                ELSE /\ ~Pending(k)
                     /\ k \notin whist.calledTickets
                     /\ k \notin whist.cancelledTickets)

\* C30 witness: the worker thread has executed one task and waits again,
\* the event cleared; a second task has been pushed by a start that has not
\* yet signalled the event.
C30_Witness ==
    /\ workerPc = "wait"
    /\ ~m_event
    /\ m_queue = <<2>>
    /\ startPc[2] = "signal"
    /\ whist.calledTickets = {1}
    /\ ~m_stop

\* ------------------------------------------------------------------------
\* Disarming, the time array and the end of an arming
\* ------------------------------------------------------------------------

\* Disarming has been requested in the arming under way and the arming has
\* not ended.
DisarmPending == m_disarm_requested /\ armStateParam # ArmStateDisarm

\* C31: from a disarm request made while ARM_STATE is not Disarm the arming
\* comes to its end: ARM_STATE becomes Disarm or the pending rearming is
\* started (startArming clears m_disarm_requested); from the request to
\* that end m_disarm_requested_event is signalled, so that no wait on it
\* blocks, and ARM_STATE is Busy.
C31_DisarmHonoured ==
    /\ DisarmPending ~> (armStateParam = ArmStateDisarm \/ ~m_disarm_requested)
    /\ [](DisarmPending
             => (m_disarm_requested_event /\ armStateParam = ArmStateBusy))

\* C31 witness: disarming was requested while the read thread waited in the
\* Error state after a failure in the read loop.
C31_Witness ==
    /\ pc = "wait_disarm"
    /\ DisarmPending
    /\ m_disarm_requested_event
    /\ hist.failed
    /\ hist.nProcess >= 1
    /\ hist.nInterrupt = 0

\* checkSettings has succeeded in the arming under way: the effective
\* values are set from setEffectiveParams to clearEffectiveParams.
TimeArrayProgrammed == effectiveSampleRate # NAN

\* The numbers of samples setupTimeArray takes from the snapshot of the
\* arming: <<num_pre, num_post>>.
SnapshotSamples ==
    <<IF m_requested_arm_state = ArmStatePrePostTrigger
      THEN m_snapshot_value["NUM_PRE_POST_SAMPLES"]
              - m_snapshot_value["NUM_POST_SAMPLES"]
      ELSE 0,
      m_snapshot_value["NUM_POST_SAMPLES"]>>

\* C32 as stated: once checkSettings has succeeded in an arming, the time
\* array driver holds the custom numbers of samples of arm_info if the
\* driver set custom_time_array_calc_inputs, and else the numbers of the
\* snapshot: NUM_POST_SAMPLES post-samples and NUM_PRE_POST_SAMPLES -
\* NUM_POST_SAMPLES pre-samples in PrePostTrigger, none in PostTrigger.
C32_AsStated ==
    TimeArrayProgrammed =>
       <<timeArray.m_num_pre, timeArray.m_num_post>> =
          IF hist.armInfo.custom_time_array_calc_inputs
          THEN <<hist.armInfo.custom_time_array_num_pre_samples,
                 hist.armInfo.custom_time_array_num_post_samples>>
          ELSE SnapshotSamples

\* An arming has been started since construction and has ended with
\* ARM_STATE Disarm.
ArmingEndedInDisarm ==
    /\ armStateParam = ArmStateDisarm
    /\ m_requested_arm_state # ArmStateDisarm

\* C33 as stated: when an arming has ended with no rearming pending and
\* ARM_STATE has become Disarm, onDisarmed has been called, also when the
\* arming failed before startAcquisition.
C33_AsStated == ArmingEndedInDisarm => hist.nOnDisarmed >= 1

\* ------------------------------------------------------------------------
\* The burst counters
\* ------------------------------------------------------------------------

\* The read thread is in the burst loop, where currentRemBursts is in
\* scope, or has just left it for the restart.
InBurstLoop ==
    pc \in {"read_burst", "check_disarm", "check_overflow", "process",
            "restart"}

\* C34: with checkOverflow reporting a positive num_buffer_bursts with
\* every overflow, assert(overflow) after the burst loop never fails: the
\* loop is left with currentRemBursts = 0 and remainingBursts # 0 only
\* after an overflow was detected in the cycle; in an arming with a limit
\* of K = NUM_BURSTS > 0 bursts 0 <= currentRemBursts <= remainingBursts
\* <= K in the burst loop, and in one without a limit remainingBursts stays
\* -1; readBurst is called only with currentRemBursts # 0; and
\* checkOverflow is called only while no overflow has been detected in the
\* cycle.
C34_BurstCounters ==
    /\ pc # "assert_failed"
    /\ pc = "restart"
          => (overflow /\ currentRemBursts = 0 /\ remainingBursts # 0)
    /\ pc = "check_overflow" => ~overflow
    /\ pc \in {"read_burst", "check_disarm", "check_overflow", "process"}
          => currentRemBursts # 0
    /\ InBurstLoop
          => IF m_snapshot_value["NUM_BURSTS"] > 0
             THEN /\ 0 <= currentRemBursts
                  /\ currentRemBursts <= remainingBursts
                  /\ remainingBursts <= m_snapshot_value["NUM_BURSTS"]
             ELSE /\ remainingBursts = -1
                  /\ currentRemBursts >= -1
                  /\ currentRemBursts >= 0 => overflow

\* C34 witness: in an arming limited to two bursts an overflow was detected
\* at the first burst with one burst in the buffer; the burst has been
\* processed and the loop is left for the restart with one burst to go.
C34_Witness ==
    /\ pc = "restart"
    /\ m_snapshot_value["NUM_BURSTS"] = 2
    /\ remainingBursts = 1
    /\ currentRemBursts = 0
    /\ overflow
    /\ hist.nProcess = 1

\* ------------------------------------------------------------------------
\* m_allowing_data
\* ------------------------------------------------------------------------

\* submit reads m_allowing_data under the port lock.
SubmitChecks == subPc = "idle" /\ subPc' = "decided"

\* C35: m_allowing_data is true only while no disarming has been requested
\* in the arming under way and ARM_STATE is not Disarm, so that a submit
\* that reads it while ARM_STATE is Disarm releases the array.  In the
\* Error state m_allowing_data is true exactly if the arming had come to
\* startAcquisition, and a submit that reads it then hands the array on.
C35_AllowingDataOnlyInArming ==
    /\ [](/\ m_allowing_data
               => (~m_disarm_requested /\ armStateParam # ArmStateDisarm)
          /\ armStateParam = ArmStateError
               => (m_allowing_data <=> need_stop_acquisition))
    /\ [][SubmitChecks
             => /\ armStateParam = ArmStateDisarm => ~proceed'
                /\ proceed' <=> m_allowing_data]_vars

\* C35 witness: a submit made after an arming that had called
\* startAcquisition has ended in Disarm has decided to release the array.
C35_Witness ==
    /\ subPc = "decided"
    /\ ~proceed
    /\ armStateParam = ArmStateDisarm
    /\ hist.nStart >= 1
    /\ hist.nStop >= 1

\* C35 as stated: m_allowing_data is true only while no disarming has been
\* requested and ARM_STATE is neither Disarm nor Error.
C35_AsStated ==
    m_allowing_data
       => (~m_disarm_requested
              /\ armStateParam \notin {ArmStateDisarm, ArmStateError})

\* ------------------------------------------------------------------------
\* The readBurst of the base class
\* ------------------------------------------------------------------------

\* C36: m_disarm_requested_event is signalled only while disarming is
\* requested in the arming under way (the end of an arming leaves it
\* cleared, also after the wait in the Error state), so the readBurst of
\* the base class returns only after a disarm request of the arming; the
\* check after it sends the read thread to the cleanup with no error, never
\* to checkOverflow or processBurstData, and the cleanup goes on to
\* stopAcquisition.
C36_DefaultReadBurst ==
    /\ [](/\ m_disarm_requested_event => DisarmPending
          /\ pc = "check_disarm"
               => (m_disarm_requested /\ need_stop_acquisition)
          /\ pc \notin {"check_overflow", "process", "restart"})
    /\ [][/\ (pc = "check_disarm" /\ pc' # pc)
                => (pc' = "error" /\ ~had_error')
          /\ (pc = "error" /\ ~had_error /\ need_stop_acquisition
                 /\ pc' # pc)
                => pc' = "stop_acq"]_vars

\* C36 witness: the readBurst of the base class has returned in an arming
\* started by a rearm request, after a write of Disarm.
C36_Witness ==
    /\ pc = "check_disarm"
    /\ m_disarm_requested
    /\ m_disarm_requested_event
    /\ m_requested_arm_state = ArmStatePrePostTrigger
    /\ armRequestParam = ArmStateDisarm
    /\ hist.nInterrupt = 1
    /\ ~hist.failed

\* ------------------------------------------------------------------------
\* Pending rearm requests
\* ------------------------------------------------------------------------

\* A rearming is pending: PostTrigger or PrePostTrigger was written during
\* the arming under way and is still its rearm target.
RearmPending == DisarmPending /\ m_requested_rearm_state # ArmStateDisarm

\* C37: requestDisarmingFromDriver called while a rearming is pending makes
\* the rearm target Disarm and changes nothing else; an arming whose
\* disarming is requested with the target Disarm ends with ARM_STATE Disarm
\* and no arming started, unless a later write of ARM_REQUEST sets a target
\* again.
C37_DriverDisarmDropsRearm ==
    /\ (DisarmPending /\ m_requested_rearm_state = ArmStateDisarm)
          ~> (armStateParam = ArmStateDisarm
                 \/ m_requested_rearm_state # ArmStateDisarm)
    /\ [][/\ (requestDisarmingFromDriver /\ RearmPending)
                => /\ m_requested_rearm_state' = ArmStateDisarm
                   /\ UNCHANGED <<armRequestParam, m_disarm_requested,
                                  m_allowing_data, m_arm_state,
                                  armStateParam, m_requested_arm_state,
                                  m_disarm_requested_event,
                                  m_start_arming_event, hist>>
          /\ (EndsArming /\ m_requested_rearm_state = ArmStateDisarm)
                => (armStateParam' = ArmStateDisarm
                       /\ ~m_start_arming_event'
                       /\ UNCHANGED <<m_requested_arm_state,
                                      m_disarm_requested>>)]_vars

\* C37 witness: an arming requested with PrePostTrigger, during which
\* PostTrigger was written (still the value of ARM_REQUEST), has ended in
\* Disarm after a disarm request of the driver; no arming is started.
C37_Witness ==
    /\ armStateParam = ArmStateDisarm
    /\ pc = "wait_start"
    /\ ~m_start_arming_event
    /\ m_disarm_requested
    /\ m_requested_arm_state = ArmStatePrePostTrigger
    /\ armRequestParam = ArmStatePostTrigger
    /\ m_requested_rearm_state = ArmStateDisarm


\* ------------------------------------------------------------------------
\* Arm requests and the armings they start
\* ------------------------------------------------------------------------

\* The states an arming can be requested with.
ArmedStates == {ArmStatePostTrigger, ArmStatePrePostTrigger}

\* startArming has been called with the state v and the read thread has not
\* yet taken the signal of m_start_arming_event.
ArmingSignalled(v) ==
    /\ m_start_arming_event
    /\ m_requested_arm_state = v
    /\ armStateParam = ArmStateBusy
    /\ pc = "wait_start"

\* ArmingSignalled(v) holds after the step.
ArmingSignalledNext(v) ==
    /\ m_start_arming_event'
    /\ m_requested_arm_state' = v
    /\ armStateParam' = ArmStateBusy
    /\ pc' = "wait_start"

\* C38: an accepted write of PostTrigger or PrePostTrigger either starts the
\* arming at once (ARM_STATE was Disarm) or makes the written state the
\* pending rearm target; a pending target v leads to startArming(v) unless a
\* later request replaces it; m_start_arming_event is signalled only while
\* it is not signalled, with the read thread at its wait or ending an
\* arming, and for the state last asked for; and the read thread takes
\* every signal, with ARM_STATE Busy and the requested state unchanged.
C38_NoArmRequestLost ==
    /\ \A v \in ArmedStates :
          (RearmPending /\ m_requested_rearm_state = v)
             ~> ((ArmingSignalled(v) /\ ~m_disarm_requested)
                    \/ (DisarmPending /\ m_requested_rearm_state # v))
    /\ m_start_arming_event ~> (pc = "lock_arm" /\ ~m_start_arming_event)
    /\ [](m_start_arming_event
             => (pc = "wait_start" /\ m_arm_state = ArmStateBusy
                    /\ armStateParam = ArmStateBusy
                    /\ m_requested_arm_state \in ArmedStates))
    /\ [][/\ (HandlerStep /\ armRequestParam' # armRequestParam
                 /\ armRequestParam' \in ArmedStates)
                => IF armStateParam = ArmStateDisarm
                   THEN ArmingSignalledNext(armRequestParam')
                           /\ ~m_start_arming_event
                   ELSE RearmPending'
                           /\ m_requested_rearm_state' = armRequestParam'
                           /\ UNCHANGED m_start_arming_event
          /\ (~m_start_arming_event /\ m_start_arming_event')
                => /\ ~m_disarm_requested'
                   /\ m_requested_rearm_state' = ArmStateDisarm
                   /\ IF EndsArming
                      THEN /\ RearmPending
                           /\ ArmingSignalledNext(m_requested_rearm_state)
                      ELSE /\ armStateParam = ArmStateDisarm
                           /\ ArmingSignalledNext(armRequestParam')
          /\ (EndsArming /\ m_requested_rearm_state # ArmStateDisarm)
                => ArmingSignalledNext(m_requested_rearm_state)
          /\ (m_start_arming_event /\ m_start_arming_event')
                => (pc' = pc /\ UNCHANGED m_requested_arm_state)
          /\ (m_start_arming_event /\ ~m_start_arming_event')
                => (pc' = "lock_arm"
                       /\ UNCHANGED <<armStateParam, m_requested_arm_state,
                                      m_disarm_requested,
                                      m_requested_rearm_state>>)]_vars

\* C38 witness: an arming has been started with PrePostTrigger at the end
\* of an arming, as the rearm target written during that arming, and the
\* read thread has not yet taken the signal.
C38_Witness ==
    /\ ArmingSignalled(ArmStatePrePostTrigger)
    /\ hist.armStateTrace = <<>>
    /\ armRequestParam = ArmStatePrePostTrigger
    /\ ~m_disarm_requested


\* ------------------------------------------------------------------------
\* TRWorkerThread::stop
\* ------------------------------------------------------------------------

\* stop has set m_stop and signalled the event.
StopSignalled == stopPc \in {"exit_wait", "stopped"}

\* The tickets of the tasks in the queue.
QueuedTickets == {whist.ticket[t] : t \in Range(m_queue)}

\* C39: a call of stop returns, with the worker thread out of run; once
\* m_stop is set the worker thread takes no task from the queue, so that
\* it calls at most the runnable of the task it had taken before, and the
\* tasks in the queue stay there until they are cancelled; the worker
\* thread is never left waiting on the event after stop has signalled it
\* (tryWait does not take the signal of stop).
C39_StopTerminates ==
    /\ (stopPc # "idle") ~> (stopPc = "stopped" /\ workerPc = "exited")
    /\ [](m_stop => (stopPc # "idle" /\ workerPc # "try_wait"))
    /\ []((StopSignalled /\ workerPc = "wait") => m_event)
    /\ []((stopPc = "stopped") => workerPc = "exited")
    /\ [][m_stop =>
             /\ workerPc' # workerPc
                   => <<workerPc, workerPc'>> \in
                         {<<"lock", "top">>, <<"top", "exited">>,
                          <<"wait", "lock">>, <<"run", "running">>,
                          <<"running", "lock">>}
             /\ (workerPc \notin {"run", "running"})
                   => whist'.calledTickets = whist.calledTickets
             /\ whist'.runTicket = whist.runTicket
             /\ QueuedTickets \cap whist'.calledTickets = {}
             /\ \A t \in Range(m_queue) :
                   t \in Range(m_queue')
                      \/ whist.ticket[t] \in whist'.cancelledTickets
             /\ m_stop']_vars

\* C39 witness: stop has returned with the worker thread out of run and the
\* event taken, while a task is still in the queue; no runnable was called
\* and no task was cancelled.
C39_Witness ==
    /\ stopPc = "stopped"
    /\ workerPc = "exited"
    /\ m_queue # <<>>
    /\ whist.calledTickets = {}
    /\ whist.cancelledTickets = {}
    /\ ~m_event


\* ------------------------------------------------------------------------
\* Transitions of ARM_STATE
\* ------------------------------------------------------------------------

\* The positions of the read thread from the detection of an overflow to
\* the locked block after the startAcquisition that restarts the
\* acquisition.
OverflowRecoveryPositions ==
    {"check_overflow", "process", "restart", "outer", "start_acq",
     "after_start"}

\* A step of the read thread in the recovery from an overflow that stays in
\* the arming's loops.
OverflowRecoveryStep ==
    /\ pc \in OverflowRecoveryPositions
    /\ pc' # pc
    /\ overflow \/ overflow'
    /\ pc' \notin {"error", "wait_start"}

\* C40: the ARM_STATE parameter is one of the five states and changes only
\* from Disarm to Busy, from Busy to the state the arming under way was
\* requested with, from Busy or an armed state to Error, from Error to
\* Busy, from an armed state to Busy, and from Busy or an armed state to
\* Disarm; no step of the recovery from an overflow changes it.
C40_ArmStateTransitions ==
    /\ [](armStateParam \in {ArmStateDisarm, ArmStateBusy, ArmStateError}
                               \cup ArmedStates)
    /\ [][/\ armStateParam' # armStateParam
                => /\ armStateParam = ArmStateDisarm
                         => armStateParam' = ArmStateBusy
                   /\ armStateParam' \in ArmedStates
                         => /\ armStateParam = ArmStateBusy
                            /\ armStateParam' = m_requested_arm_state
                            /\ UNCHANGED m_requested_arm_state
                   /\ armStateParam' = ArmStateError
                         => armStateParam \in {ArmStateBusy} \cup ArmedStates
                   /\ armStateParam = ArmStateError
                         => armStateParam' = ArmStateBusy
                   /\ armStateParam' = ArmStateDisarm
                         => armStateParam \in {ArmStateBusy} \cup ArmedStates
          /\ OverflowRecoveryStep
                => UNCHANGED <<armStateParam, m_arm_state>>]_vars

\* C40 witness: the acquisition was restarted after an overflow and the
\* read thread reads bursts again; ARM_STATE went from Disarm to Busy to
\* PrePostTrigger and has not been set since.
C40_Witness ==
    /\ pc = "read_burst"
    /\ hist.nStart = 2
    /\ hist.nProcess >= 1
    /\ ~overflow
    /\ armStateParam = ArmStatePrePostTrigger
    /\ hist.armStateTrace = <<ArmStateDisarm, ArmStateBusy,
                              ArmStatePrePostTrigger>>

====
